---- MODULE Spec2Model ----
(***************************************************************************)
(* A model of ipv6utils (src/ipv6utils.go): the IPv6 address algorithms    *)
(* (subnet enumeration, RFC 6052 translation, EUI-64 MAC coding and        *)
(* ip6.arpa names) together with the parts of Go's net, fmt, math/big and  *)
(* encoding/hex packages that the code calls.                              *)
(*                                                                         *)
(* Text is a TLA+ string, an address is a tuple of 16 bytes (0..255), a Go *)
(* int is a tuple of 64 bits (two's complement, least significant first)   *)
(* and a big.Int is a big-endian tuple of bytes without leading zeros.     *)
(***************************************************************************)
EXTENDS Integers, Sequences, FiniteSets, TLC

(***************************************************************************)
(* Text helpers.                                                            *)
(***************************************************************************)

\* s[i] of Go (i is 0-based) as a one-character string.
Ch(s, i) == SubSeq(s, i + 1, i + 1)

\* s[n:] of Go.
Drop(s, n) == SubSeq(s, n + 1, Len(s))

\* s[:n] of Go.
Take(s, n) == SubSeq(s, 1, n)

\* strings.Index(s, c) for a one-character c, searched from position i: the
\* first position, or -1.
RECURSIVE IndexFrom(_, _, _)
IndexFrom(s, c, i) ==
  IF i >= Len(s) THEN -1
  ELSE IF Ch(s, i) = c THEN i
  ELSE IndexFrom(s, c, i + 1)

\* strings.Index(s, c) for a one-character c.
IndexByte(s, c) == IndexFrom(s, c, 0)

\* strings.LastIndex(s, c) for a one-character c, searched down from i.
RECURSIVE LastIndexFrom(_, _, _)
LastIndexFrom(s, c, i) ==
  IF i < 0 THEN -1
  ELSE IF Ch(s, i) = c THEN i
  ELSE LastIndexFrom(s, c, i - 1)

\* strings.LastIndex(s, c) for a one-character c.
LastIndexByte(s, c) == LastIndexFrom(s, c, Len(s) - 1)

\* strings.HasPrefix(s, p).
HasPrefix(s, p) == Len(s) >= Len(p) /\ Take(s, Len(p)) = p

\* strings.HasSuffix(s, p).
HasSuffix(s, p) == Len(s) >= Len(p) /\ Drop(s, Len(s) - Len(p)) = p

\* The value of a decimal digit, or -1.
DecVal(c) == IndexByte("0123456789", c)

\* The value of the hex digit found at position k of "0..9a..fA..F", or -1.
HexValAt(k) == IF k < 0 THEN -1 ELSE IF k < 16 THEN k ELSE k - 6

\* The value of a hex digit of either case, or -1.
HexVal(c) == HexValAt(IndexByte("0123456789abcdefABCDEF", c))

\* One lowercase hex digit.
HexDigit(v) == Ch("0123456789abcdef", v)

\* fmt's %02x of a byte, and hex.EncodeToString of one byte.
Hex2(b) == HexDigit(b \div 16) \o HexDigit(b % 16)

\* fmt's %x of a 16-bit value: no leading zeros.
RECURSIVE HexStr(_)
HexStr(v) == IF v < 16 THEN HexDigit(v) ELSE HexStr(v \div 16) \o HexDigit(v % 16)

\* fmt's %d of a non-negative int.
RECURSIVE DecStr(_)
DecStr(v) == IF v < 10 THEN Ch("0123456789", v) ELSE DecStr(v \div 10) \o Ch("0123456789", v % 10)

\* fmt's %d of an int.
IntStr(v) == IF v < 0 THEN "-" \o DecStr(0 - v) ELSE DecStr(v)

\* The upper-case form of c, found at position k of "abcdef" (or not, -1).
UpperAt(c, k) == IF k >= 0 THEN Ch("ABCDEF", k) ELSE c

\* strings.ToUpper on the characters an address can hold.
RECURSIVE ToUpper(_)
ToUpper(s) ==
  IF s = "" THEN ""
  ELSE UpperAt(Ch(s, 0), IndexByte("abcdef", Ch(s, 0))) \o ToUpper(Drop(s, 1))

\* strings.Join(parts, sep) of a tuple of strings.
RECURSIVE Join(_, _)
Join(parts, sep) ==
  IF Len(parts) = 0 THEN ""
  ELSE IF Len(parts) = 1 THEN parts[1]
  ELSE parts[1] \o sep \o Join(Tail(parts), sep)

\* strings.Split(s, sep) for a one-character sep: a tuple of strings.
RECURSIVE Split(_, _)
SplitAt(s, sep, k) ==
  IF k < 0 THEN <<s>> ELSE <<Take(s, k)>> \o Split(Drop(s, k + 1), sep)
Split(s, sep) == SplitAt(s, sep, IndexByte(s, sep))

\* n zero bytes.
RECURSIVE Zeros(_)
Zeros(n) == IF n <= 0 THEN <<>> ELSE <<0>> \o Zeros(n - 1)

\* strings.Split(s, ""): the characters of s.
RECURSIVE Chars(_)
Chars(s) == IF s = "" THEN <<>> ELSE <<Ch(s, 0)>> \o Chars(Drop(s, 1))

\* slices.Reverse.
RECURSIVE Reverse(_)
Reverse(q) == IF Len(q) = 0 THEN <<>> ELSE Reverse(Tail(q)) \o <<q[1]>>

(***************************************************************************)
(* net / netip: parsing. A parse result is [ok, ip, bits]: the address as   *)
(* 16 bytes and its family (32 or 128 bits).                                *)
(***************************************************************************)

\* A failed parse (Go's error, or nil from net.ParseIP).
Fail == [ok |-> FALSE, ip |-> <<>>, bits |-> 0]

\* netip.parseIPv4Fields: the four octets of a dotted quad. i is the
\* position in s, val and digLen the octet being read, fields the octets
\* read; ParseIPv4At looks at the character c at position i.
RECURSIVE ParseIPv4Fields(_, _, _, _, _)
ParseIPv4At(s, i, val, digLen, fields, c) ==
  IF DecVal(c) >= 0
  THEN IF digLen = 1 /\ val = 0 THEN Fail
       ELSE IF val * 10 + DecVal(c) > 255 THEN Fail
       ELSE ParseIPv4Fields(s, i + 1, val * 10 + DecVal(c), digLen + 1, fields)
  ELSE IF c = "."
  THEN IF i = 0 \/ i = Len(s) - 1 \/ Ch(s, i - 1) = "." THEN Fail
       ELSE IF Len(fields) = 3 THEN Fail
       ELSE ParseIPv4Fields(s, i + 1, 0, 0, Append(fields, val))
  ELSE Fail
ParseIPv4Fields(s, i, val, digLen, fields) ==
  IF i >= Len(s)
  THEN IF Len(fields) < 3 THEN Fail ELSE [ok |-> TRUE, ip |-> Append(fields, val), bits |-> 32]
  ELSE ParseIPv4At(s, i, val, digLen, fields, Ch(s, i))

V4InV6Prefix == <<0, 0, 0, 0, 0, 0, 0, 0, 0, 0, 255, 255>>

\* Addr.As16 of a parsed IPv4 address.
As16Of(r) == IF r.ok THEN [ok |-> TRUE, ip |-> V4InV6Prefix \o r.ip, bits |-> 32] ELSE Fail

\* netip.parseIPv4 followed by Addr.As16.
ParseIPv4(s) == As16Of(ParseIPv4Fields(s, 0, 0, 0, <<>>))

\* The hex number scan of netip.parseIPv6: the digits consumed (off) and
\* their value (acc); more than 4 digits or a value past 16 bits fail.
RECURSIVE ScanHexField(_, _, _)
ScanHexDigit(s, off, acc2) ==
  IF off > 3 THEN [ok |-> FALSE, off |-> off, acc |-> acc2]
  ELSE IF acc2 > 65535 THEN [ok |-> FALSE, off |-> off, acc |-> acc2]
  ELSE ScanHexField(s, off + 1, acc2)
ScanHexField(s, off, acc) ==
  IF off < Len(s) /\ HexVal(Ch(s, off)) >= 0
  THEN ScanHexDigit(s, off, acc * 16 + HexVal(Ch(s, off)))
  ELSE [ok |-> off > 0, off |-> off, acc |-> acc]

\* The end of netip.parseIPv6: the whole string used, the ellipsis expanded
\* to the missing zero bytes.
ParseIPv6Finish(s, ip, ellipsis) ==
  IF Len(s) # 0 THEN Fail
  ELSE IF Len(ip) < 16
  THEN IF ellipsis < 0 THEN Fail
       ELSE [ok |-> TRUE,
             ip |-> SubSeq(ip, 1, ellipsis) \o Zeros(16 - Len(ip))
                    \o SubSeq(ip, ellipsis + 1, Len(ip)),
             bits |-> 128]
  ELSE IF ellipsis >= 0 THEN Fail
  ELSE [ok |-> TRUE, ip |-> ip, bits |-> 128]

\* An embedded IPv4 address ends the address.
ParseIPv6Embedded(ip, ellipsis, v4) ==
  IF ~v4.ok THEN Fail ELSE ParseIPv6Finish("", ip \o v4.ip, ellipsis)

\* The loop of netip.parseIPv6: hex fields followed by colons; ip holds the
\* bytes written so far (Go's index i is Len(ip)). ParseIPv6Field goes on
\* from the scanned field h, ParseIPv6Colon from the text s2 that follows it.
RECURSIVE ParseIPv6Loop(_, _, _)
ParseIPv6Colon(s2, ip2, ellipsis) ==
  IF Len(s2) = 0 THEN ParseIPv6Finish(s2, ip2, ellipsis)
  ELSE IF Ch(s2, 0) # ":" THEN Fail
  ELSE IF Len(s2) = 1 THEN Fail
  ELSE IF Ch(s2, 1) = ":"
  THEN IF ellipsis >= 0 THEN Fail
       ELSE IF Len(s2) = 2 THEN ParseIPv6Finish("", ip2, Len(ip2))
       ELSE ParseIPv6Loop(Drop(s2, 2), ip2, Len(ip2))
  ELSE ParseIPv6Loop(Drop(s2, 1), ip2, ellipsis)
ParseIPv6Field(s, ip, ellipsis, h) ==
  IF ~h.ok THEN Fail
  ELSE IF h.off < Len(s) /\ Ch(s, h.off) = "."
  THEN IF ellipsis < 0 /\ Len(ip) # 12 THEN Fail
       ELSE IF Len(ip) + 4 > 16 THEN Fail
       ELSE ParseIPv6Embedded(ip, ellipsis, ParseIPv4Fields(s, 0, 0, 0, <<>>))
  ELSE ParseIPv6Colon(Drop(s, h.off), ip \o <<h.acc \div 256, h.acc % 256>>, ellipsis)
ParseIPv6Loop(s, ip, ellipsis) ==
  IF Len(ip) >= 16 THEN ParseIPv6Finish(s, ip, ellipsis)
  ELSE ParseIPv6Field(s, ip, ellipsis, ScanHexField(s, 0, 0))

\* netip.parseIPv6 as net.ParseIP uses it: an address with a zone is refused.
ParseIPv6(s) ==
  IF IndexByte(s, "%") >= 0 THEN Fail
  ELSE IF Len(s) >= 2 /\ Ch(s, 0) = ":" /\ Ch(s, 1) = ":"
  THEN IF Len(s) = 2 THEN [ok |-> TRUE, ip |-> Zeros(16), bits |-> 128]
       ELSE ParseIPv6Loop(Drop(s, 2), <<>>, 0)
  ELSE ParseIPv6Loop(s, <<>>, -1)

\* netip.ParseAddr's dispatch on the first of '.', ':' and '%'.
RECURSIVE ParseAddrFrom(_, _)
ParseAddrFrom(s, i) ==
  IF i >= Len(s) THEN Fail
  ELSE IF Ch(s, i) = "." THEN ParseIPv4(s)
  ELSE IF Ch(s, i) = ":" THEN ParseIPv6(s)
  ELSE IF Ch(s, i) = "%" THEN Fail
  ELSE ParseAddrFrom(s, i + 1)

\* netip.ParseAddr: the address as 16 bytes and its family (32 or 128 bits).
ParseAddr(s) == ParseAddrFrom(s, 0)

\* net.ParseIP: the 16-byte form of the address, or ok = FALSE for nil.
ParseIP(s) == ParseAddr(s)

(***************************************************************************)
(* net / netip: the IP type and its formatting.                             *)
(***************************************************************************)

\* IP.To4: the 4-byte form of an IPv4 or IPv4-mapped address, or <<>> (nil).
To4(ip) ==
  IF Len(ip) = 4 THEN ip
  ELSE IF Len(ip) = 16 /\ SubSeq(ip, 1, 12) = V4InV6Prefix THEN SubSeq(ip, 13, 16)
  ELSE <<>>

\* IP.To16: the 16-byte form, or <<>> (nil).
To16(ip) ==
  IF Len(ip) = 4 THEN V4InV6Prefix \o ip
  ELSE IF Len(ip) = 16 THEN ip
  ELSE <<>>

\* Addr.v6u16: the i-th 16-bit group (i in 0..7) of a 16-byte address.
Group(ip, i) == ip[2 * i + 1] * 256 + ip[2 * i + 2]

\* The length of the run of zero groups that starts at group i.
RECURSIVE ZeroRunFrom(_, _)
ZeroRunFrom(ip, i) ==
  IF i < 8 /\ Group(ip, i) = 0 THEN 1 + ZeroRunFrom(ip, i + 1) ELSE 0

\* The first loop of Addr.appendTo6: the leftmost longest run of two or more
\* zero groups, as <<zeroStart, zeroEnd>>, or <<255, 255>>; l is the length
\* of the run at group i.
RECURSIVE LongestZeroRun(_, _, _)
LongerZeroRun(ip, i, best, l) ==
  IF l >= 2 /\ l > best[2] - best[1]
  THEN LongestZeroRun(ip, i + 1, <<i, i + l>>)
  ELSE LongestZeroRun(ip, i + 1, best)
LongestZeroRun(ip, i, best) ==
  IF i >= 8 THEN best ELSE LongerZeroRun(ip, i, best, ZeroRunFrom(ip, i))

\* The second loop of Addr.appendTo6: the groups in hex around the "::"; the
\* group after the "::" is written without a colon of its own.
RECURSIVE AppendTo6(_, _, _)
AppendTo6(ip, i, zero) ==
  IF i >= 8 THEN ""
  ELSE IF i = zero[1]
  THEN "::" \o (IF zero[2] >= 8 THEN ""
                ELSE HexStr(Group(ip, zero[2])) \o AppendTo6(ip, zero[2] + 1, zero))
  ELSE (IF i > 0 THEN ":" ELSE "") \o HexStr(Group(ip, i)) \o AppendTo6(ip, i + 1, zero)

\* Addr.string6: the RFC 5952 text of a 16-byte address.
String6(ip) == AppendTo6(ip, 0, LongestZeroRun(ip, 0, <<255, 255>>))

\* Addr.string4, and fmt's "%d.%d.%d.%d": dotted decimal.
String4(q) == DecStr(q[1]) \o "." \o DecStr(q[2]) \o "." \o DecStr(q[3]) \o "." \o DecStr(q[4])

\* hex.EncodeToString of a tuple of bytes.
RECURSIVE HexEncode(_)
HexEncode(b) == IF Len(b) = 0 THEN "" ELSE Hex2(b[1]) \o HexEncode(Tail(b))

\* IP.String: dotted decimal for an IPv4 or IPv4-mapped address, RFC 5952
\* text for any other 16-byte address, "?" and hex for any other length.
IPString(ip) ==
  IF Len(ip) = 0 THEN "<nil>"
  ELSE IF Len(ip) # 4 /\ Len(ip) # 16 THEN "?" \o HexEncode(ip)
  ELSE IF Len(To4(ip)) = 4 THEN String4(To4(ip))
  ELSE String6(ip)

(***************************************************************************)
(* net: masks and CIDR blocks.                                              *)
(***************************************************************************)

\* 2^n for the small n of byte and nibble arithmetic.
RECURSIVE Pow2(_)
Pow2(n) == IF n <= 0 THEN 1 ELSE 2 * Pow2(n - 1)

\* A mask byte with its first n bits set.
MaskByte(n) == IF n >= 8 THEN 255 ELSE IF n <= 0 THEN 0 ELSE 256 - Pow2(8 - n)

\* net.CIDRMask(ones, bits): bits/8 bytes whose first `ones` bits are set.
RECURSIVE CIDRMask(_, _)
CIDRMask(ones, bits) ==
  IF bits <= 0 THEN <<>> ELSE <<MaskByte(ones)>> \o CIDRMask(ones - 8, bits - 8)

\* The number of leading one bits of a mask byte.
ByteOnes(b) == CHOOSE n \in 0..8 : b = MaskByte(n)

\* IPMask.Size: the number of leading ones of a canonical mask.
RECURSIVE MaskSize(_)
MaskSize(m) ==
  IF Len(m) = 0 THEN 0
  ELSE IF m[1] = 255 THEN 8 + MaskSize(Tail(m))
  ELSE ByteOnes(m[1])

\* The bitwise and of two n-bit values.
RECURSIVE AndByte(_, _, _)
AndByte(a, b, n) ==
  IF n = 0 THEN 0
  ELSE 2 * AndByte(a \div 2, b \div 2, n - 1) + (IF a % 2 = 1 /\ b % 2 = 1 THEN 1 ELSE 0)

\* The bitwise exclusive or of two n-bit values.
RECURSIVE XorByte(_, _, _)
XorByte(a, b, n) ==
  IF n = 0 THEN 0
  ELSE 2 * XorByte(a \div 2, b \div 2, n - 1) + (IF a % 2 # b % 2 THEN 1 ELSE 0)

\* The bytewise and of two tuples of the same length.
RECURSIVE AndBytes(_, _)
AndBytes(a, m) ==
  IF Len(a) = 0 THEN <<>> ELSE <<AndByte(a[1], m[1], 8)>> \o AndBytes(Tail(a), Tail(m))

\* The address as it is, with no bit cleared.
IPUnmasked(ip, mask) == ip

\* IP.Mask: the address with the bits outside the mask cleared, or <<>> (nil)
\* when the lengths do not fit.
IPMask(ip, mask) ==
  IF Len(mask) = 16 /\ Len(ip) = 4 /\ SubSeq(mask, 1, 12) = CIDRMask(96, 96)
  THEN AndBytes(ip, SubSeq(mask, 13, 16))
  ELSE IF Len(mask) = 4 /\ Len(ip) = 16 /\ SubSeq(ip, 1, 12) = V4InV6Prefix
  THEN AndBytes(SubSeq(ip, 13, 16), mask)
  ELSE IF Len(ip) # Len(mask) THEN <<>>
  ELSE AndBytes(ip, mask)

\* net's dtoi: the leading decimal digits of s as <<n, digits used, ok>>; the
\* value is capped (0xFFFFFF) and refused when it reaches the cap.
RECURSIVE Dtoi(_, _, _)
Dtoi(s, i, n) ==
  IF i < Len(s) /\ DecVal(Ch(s, i)) >= 0
  THEN IF n * 10 + DecVal(Ch(s, i)) >= 16777215 THEN <<16777215, i, FALSE>>
       ELSE Dtoi(s, i + 1, n * 10 + DecVal(Ch(s, i)))
  ELSE IF i = 0 THEN <<0, 0, FALSE>> ELSE <<n, i, TRUE>>

\* A block that did not parse.
NoNet == [ok |-> FALSE, ip |-> <<>>, mask |-> <<>>]

\* The network of an address and its mask.
NetOf(ip, m) == [ok |-> TRUE, ip |-> IPMask(ip, m), mask |-> m]

\* net.ParseCIDR for the parsed address a and the parsed length d of the
\* text mask.
ParseCIDRWith(a, mask, d) ==
  IF ~a.ok THEN NoNet
  ELSE IF ~d[3] \/ d[2] # Len(mask) \/ d[1] < 0 \/ d[1] > a.bits THEN NoNet
  ELSE NetOf(a.ip, CIDRMask(d[1], a.bits))

\* net.ParseCIDR for the text split at position i.
ParseCIDRAt(s, i) ==
  IF i < 0 THEN NoNet
  ELSE ParseCIDRWith(ParseAddr(Take(s, i)), Drop(s, i + 1), Dtoi(Drop(s, i + 1), 0, 0))

\* net.ParseCIDR: the network (masked address and mask) of "addr/len".
ParseCIDR(s) == ParseCIDRAt(s, IndexByte(s, "/"))

(***************************************************************************)
(* math/big and Go's int.                                                   *)
(***************************************************************************)

\* A big.Int's magnitude: big-endian bytes without leading zero bytes.
RECURSIVE StripZeros(_)
StripZeros(b) == IF Len(b) > 0 /\ b[1] = 0 THEN StripZeros(Tail(b)) ELSE b

\* big.Int.SetBytes.
BigSetBytes(b) == StripZeros(b)

\* big.Int.Bytes.
BigBytes(x) == x

\* big.NewInt(1).Lsh(n): 2^n.
BigLsh1(n) == <<Pow2(n % 8)>> \o Zeros(n \div 8)

\* The bytes of a + b from byte k down, with the carry out in front.
RECURSIVE AddCarry(_, _, _, _)
AddCarry(a, b, k, carry) ==
  IF k = 0 THEN (IF carry > 0 THEN <<carry>> ELSE <<>>)
  ELSE AddCarry(a, b, k - 1, (a[k] + b[k] + carry) \div 256) \o <<(a[k] + b[k] + carry) % 256>>

\* x with zero bytes in front up to n bytes.
PadTo(x, n) == Zeros(n - Len(x)) \o x

\* The longer of two lengths.
Max(a, b) == IF a > b THEN a ELSE b

\* The sum of two magnitudes padded to n bytes.
AddPadded(x, y, n) == StripZeros(AddCarry(PadTo(x, n), PadTo(y, n), n, 0))

\* The bytes of a + b with the carry out of every byte thrown away.
RECURSIVE AddBytewise(_, _)
AddBytewise(a, b) ==
  IF Len(a) = 0 THEN <<>> ELSE <<(a[1] + b[1]) % 256>> \o AddBytewise(Tail(a), Tail(b))

\* A sum whose carries are lost between the bytes.
BigAddNoCarry(x, y) ==
  StripZeros(AddBytewise(PadTo(x, Max(Len(x), Len(y))), PadTo(y, Max(Len(x), Len(y)))))

\* big.Int.Add: the exact sum, the carry propagated through every byte.
BigAdd(x, y) == AddPadded(x, y, Max(Len(x), Len(y)))

\* The width of Go's int on the 64-bit platforms the tool is built for.
IntBits == 64

\* 1 << n in an int: bit n alone, or nothing once n reaches the width.
RECURSIVE IntShl1From(_, _)
IntShl1From(n, k) ==
  IF k > IntBits THEN <<>> ELSE <<IF k = n + 1 THEN 1 ELSE 0>> \o IntShl1From(n, k + 1)
IntShl1(n) == IntShl1From(n, 1)

\* The value of bits k .. 1 of an int.
RECURSIVE LowBits(_, _)
LowBits(c, k) == IF k = 0 THEN 0 ELSE c[k] * Pow2(k - 1) + LowBits(c, k - 1)

\* i < c for a small non-negative i (i < 2^30) and an int c.
IntLess(i, c) ==
  /\ c[IntBits] = 0
  /\ \/ \E k \in 31..(IntBits - 1) : c[k] = 1
     \/ i < LowBits(c, 30)

\* The int 0, which every failing call returns as its count.
IntZero == IntShl1(IntBits)

(***************************************************************************)
(* fmt.Sscanf and sorting.                                                  *)
(***************************************************************************)

\* fmt's SkipSpace on blanks.
RECURSIVE SkipSpace(_)
SkipSpace(s) == IF Len(s) > 0 /\ Ch(s, 0) = " " THEN SkipSpace(Drop(s, 1)) ELSE s

\* The number of leading characters of s that fmt's scanNumber accepts for
\* %x: hex digits and the underscore.
RECURSIVE AcceptRun(_, _)
AcceptRun(s, i) ==
  IF i < Len(s) /\ IndexByte("0123456789aAbBcCdDeEfF_", Ch(s, i)) >= 0
  THEN AcceptRun(s, i + 1) ELSE i

\* strconv.ParseUint(tok, 16, 64) followed by the 8-bit check of scanUint: the
\* value, or -1 for a syntax error (an underscore) or a value above 0xff.
RECURSIVE ParseHexByte(_, _, _)
ParseHexDigit(tok, i, acc, v) ==
  IF v < 0 THEN -1
  ELSE IF acc * 16 + v > 255 THEN -1
  ELSE ParseHexByte(tok, i + 1, acc * 16 + v)
ParseHexByte(tok, i, acc) ==
  IF i >= Len(tok) THEN acc ELSE ParseHexDigit(tok, i, acc, HexVal(Ch(tok, i)))

\* The result of scanning a token of n characters with the value v.
ScannedByte(n, v) ==
  IF n = 0 \/ v < 0 THEN [err |-> TRUE, val |-> 0] ELSE [err |-> FALSE, val |-> v]

\* The scan of the text t, of which the first n characters are accepted.
ScanToken(t, n) == ScannedByte(n, ParseHexByte(Take(t, n), 0, 0))

\* The scan of the text t after its leading blanks.
ScanText(t) == ScanToken(t, AcceptRun(t, 0))

\* fmt.Sscanf(s, "%x", &b) for a byte b: the leading hex digits of s are
\* scanned and whatever follows them is left unread.
SscanfHexByte(s) == ScanText(SkipSpace(s))

\* bytes.Compare(a, b) < 0.
RECURSIVE BytesLess(_, _)
BytesLess(a, b) ==
  IF Len(b) = 0 THEN FALSE
  ELSE IF Len(a) = 0 THEN TRUE
  ELSE IF a[1] # b[1] THEN a[1] < b[1]
  ELSE BytesLess(Tail(a), Tail(b))

\* The address part of a subnet entry, parsed.
EntryIP(s) == ParseIP(Take(s, IndexByte(s \o "/", "/"))).ip

\* The comparison with its operands exchanged: a descending sort.
SubnetLessReversed(s1, s2) == BytesLess(EntryIP(s2), EntryIP(s1))

\* The comparison generateSubnets sorts by: the parsed address parts.
SubnetLess(s1, s2) == BytesLess(EntryIP(s1), EntryIP(s2))

\* x put into the sorted list q, before the first entry it is less than.
RECURSIVE SortInsert(_, _)
SortInsert(x, q) ==
  IF Len(q) = 0 THEN <<x>>
  ELSE IF SubnetLess(x, q[1]) THEN <<x>> \o q
  ELSE <<q[1]>> \o SortInsert(x, Tail(q))

\* sort.Slice(subnets, less): the entries in the order of SubnetLess.
RECURSIVE SortSubnets(_)
SortSubnets(q) ==
  IF Len(q) = 0 THEN <<>>
  ELSE SortInsert(q[Len(q)], SortSubnets(SubSeq(q, 1, Len(q) - 1)))

(***************************************************************************)
(* The functions of ipv6utils.go. A result is [err, val]: err is TRUE when  *)
(* the function returns an error, val is the value it returns.              *)
(***************************************************************************)

\* isNibbleAligned: the prefix length is a multiple of 4.
isNibbleAligned(prefixLength) == prefixLength % 4 = 0

\* The warning a prefix length off a nibble boundary is logged with.
NibbleWarning(prefixLength, text) ==
  IF isNibbleAligned(prefixLength) THEN <<>> ELSE <<text>>

\* countSubnets with a guard that lets a target equal to the prefix pass.
CountOfStrict(ipnet, newPrefixLength, currentPrefixLength) ==
  IF ~ipnet.ok THEN [err |-> TRUE, val |-> IntZero]
  ELSE IF newPrefixLength < currentPrefixLength THEN [err |-> TRUE, val |-> IntZero]
  ELSE [err |-> FALSE, val |-> IntShl1(newPrefixLength - currentPrefixLength)]

\* countSubnets after the block is parsed: a target that is not longer than
\* the block's prefix is refused, else 1 << (new - current) as an int.
CountOf(ipnet, newPrefixLength, currentPrefixLength) ==
  IF ~ipnet.ok THEN [err |-> TRUE, val |-> IntZero]
  ELSE IF newPrefixLength <= currentPrefixLength THEN [err |-> TRUE, val |-> IntZero]
  ELSE [err |-> FALSE, val |-> IntShl1(newPrefixLength - currentPrefixLength)]

\* countSubnets for the parsed block.
CountParsed(ipnet, newPrefixLength) == CountOf(ipnet, newPrefixLength, MaskSize(ipnet.mask))

\* countSubnets(prefix, newPrefixLength).
countSubnets(prefix, newPrefixLength) == CountParsed(ParseCIDR(prefix), newPrefixLength)

\* The bytes of a big.Int padded on the left to 16 bytes (a value of 2^128
\* or more keeps its 17 bytes).
PadIP(newIP) == IF Len(newIP) < 16 THEN Zeros(16 - Len(newIP)) \o newIP ELSE newIP

\* addBigIntToIP: ip + value as bytes.
addBigIntToIP(ip, value) == PadIP(BigBytes(BigAdd(BigSetBytes(To16(ip)), value)))

\* synthesizedToIPv4 with the slice taken one byte early (ip[11:15]).
SynthesizedOfEarly(ip) ==
  IF ~ip.ok \/ Len(To16(ip.ip)) = 0 THEN [err |-> TRUE, val |-> ""]
  ELSE [err |-> FALSE, val |-> String4(SubSeq(ip.ip, 12, 15))]

\* synthesizedToIPv4 for the parsed address: bytes 12..15 in dotted decimal.
SynthesizedOf(ip) ==
  IF ~ip.ok \/ Len(To16(ip.ip)) = 0 THEN [err |-> TRUE, val |-> ""]
  ELSE IF Len(SubSeq(ip.ip, 13, 16)) # 4 THEN [err |-> TRUE, val |-> ""]
  ELSE [err |-> FALSE, val |-> String4(SubSeq(ip.ip, 13, 16))]

\* synthesizedToIPv4(synthesizedAddr).
synthesizedToIPv4(synthesizedAddr) == SynthesizedOf(ParseIP(synthesizedAddr))

\* ipv4ToSynthesized for the parsed addresses: the first 12 bytes of the
\* prefix, then the 4 IPv4 bytes, as text.
SynthesisOf(ip, prefixIP) ==
  IF ~ip.ok \/ Len(To4(ip.ip)) = 0 THEN [err |-> TRUE, val |-> ""]
  ELSE IF ~prefixIP.ok THEN [err |-> TRUE, val |-> ""]
  ELSE [err |-> FALSE, val |-> IPString(SubSeq(To16(prefixIP.ip), 1, 12) \o To4(ip.ip))]

\* ipv4ToSynthesized(ipv4Addr, prefix).
ipv4ToSynthesized(ipv4Addr, prefix) == SynthesisOf(ParseIP(ipv4Addr), ParseIP(prefix))

\* The MAC taken from the interface identifier with the universal/local bit
\* left as it is.
MacOfInterfaceIDNoFlip(interfaceID) ==
  <<interfaceID[1], interfaceID[2], interfaceID[3], interfaceID[6], interfaceID[7], interfaceID[8]>>

\* The MAC of an EUI-64 interface identifier: the universal/local bit of the
\* first byte flipped back, FF FE left out.
MacOfInterfaceID(interfaceID) ==
  <<XorByte(interfaceID[1], 2, 8), interfaceID[2], interfaceID[3],
    interfaceID[6], interfaceID[7], interfaceID[8]>>

\* fmt.Sprintf("%02x:%02x:%02x:%02x:%02x:%02x", ...).
MacString(mac) ==
  Hex2(mac[1]) \o ":" \o Hex2(mac[2]) \o ":" \o Hex2(mac[3]) \o ":"
  \o Hex2(mac[4]) \o ":" \o Hex2(mac[5]) \o ":" \o Hex2(mac[6])

\* The FF FE check and the MAC of an interface identifier.
DecodeInterfaceID(interfaceID) ==
  IF Len(interfaceID) < 8 \/ interfaceID[4] # 255 \/ interfaceID[5] # 254
  THEN [err |-> TRUE, val |-> ""]
  ELSE [err |-> FALSE, val |-> MacString(MacOfInterfaceID(interfaceID))]

\* The six bytes after the first three of the interface identifier, FF FE
\* among them.
MacOfSlaacIDKeepMarker(interfaceID) ==
  <<XorByte(interfaceID[1], 2, 8), interfaceID[2], interfaceID[3],
    interfaceID[4], interfaceID[5], interfaceID[6]>>

\* The mac of decodeMACFromSLAAC: interfaceID[0] ^ 0x02 and the bytes 1, 2, 5,
\* 6, 7 of the interface identifier.
MacOfSlaacID(interfaceID) ==
  <<XorByte(interfaceID[1], 2, 8), interfaceID[2], interfaceID[3],
    interfaceID[6], interfaceID[7], interfaceID[8]>>

\* The FF FE check of decodeMACFromSLAAC and the MAC it prints.
DecodeSlaacID(interfaceID) ==
  IF Len(interfaceID) < 8 \/ interfaceID[4] # 255 \/ interfaceID[5] # 254
  THEN [err |-> TRUE, val |-> ""]
  ELSE [err |-> FALSE, val |-> MacString(MacOfSlaacID(interfaceID))]

\* decodeMACFromSLAAC for the parsed address.
DecodeSLAAC(ip) ==
  IF ~ip.ok \/ Len(To16(ip.ip)) = 0 THEN [err |-> TRUE, val |-> ""]
  ELSE DecodeSlaacID(SubSeq(ip.ip, 9, 16))

\* decodeMACFromSLAAC(ipv6): the MAC of an address whose interface identifier
\* carries FF FE.
decodeMACFromSLAAC(ipv6) == DecodeSLAAC(ParseIP(ipv6))

\* The loop of macToLinkLocal: the octets scanned so far, or an error; r is
\* the scan of part i.
RECURSIVE ScanMacParts(_, _, _)
ScanMacPart(parts, i, b, r) ==
  IF r.err THEN [err |-> TRUE, val |-> b] ELSE ScanMacParts(parts, i + 1, Append(b, r.val))
ScanMacParts(parts, i, b) ==
  IF i >= 6 THEN [err |-> FALSE, val |-> b]
  ELSE ScanMacPart(parts, i, b, SscanfHexByte(parts[i + 1]))

\* The link-local text of the octets as they are, without b[0] ^= 0x02.
LinkLocalTextNoFlip(b) ==
  "fe80::" \o Hex2(b[1]) \o Hex2(b[2]) \o ":" \o Hex2(b[3]) \o "ff:fe"
  \o Hex2(b[4]) \o ":" \o Hex2(b[5]) \o Hex2(b[6])

\* fmt.Sprintf("fe80::%02x%02x:%02xff:fe%02x:%02x%02x", ...) after b[0] ^= 0x02.
LinkLocalText(b) ==
  "fe80::" \o Hex2(XorByte(b[1], 2, 8)) \o Hex2(b[2]) \o ":" \o Hex2(b[3]) \o "ff:fe"
  \o Hex2(b[4]) \o ":" \o Hex2(b[5]) \o Hex2(b[6])

\* macToLinkLocal once the six parts are scanned.
LinkLocalOf(r) ==
  IF r.err THEN [err |-> TRUE, val |-> ""] ELSE [err |-> FALSE, val |-> LinkLocalText(r.val)]

\* macToLinkLocal for the parts of the text.
LinkLocalOfParts(parts) ==
  IF Len(parts) # 6 THEN [err |-> TRUE, val |-> ""]
  ELSE LinkLocalOf(ScanMacParts(parts, 0, <<>>))

\* macToLinkLocal(mac): fe80:: and the EUI-64 interface identifier of the MAC.
macToLinkLocal(mac) == LinkLocalOfParts(Split(mac, ":"))

\* linkLocalToMAC for the parsed address; the text has to start with "fe80".
LinkLocalDecode(ipv6, ip) ==
  IF ~ip.ok \/ Len(To16(ip.ip)) = 0 \/ ~HasPrefix(ipv6, "fe80") THEN [err |-> TRUE, val |-> ""]
  ELSE DecodeInterfaceID(SubSeq(ip.ip, 9, 16))

\* linkLocalToMAC(ipv6): the MAC of a link-local EUI-64 address.
linkLocalToMAC(ipv6) == LinkLocalDecode(ipv6, ParseIP(ipv6))

\* The number of nibbles kept with the prefix rounded up to a whole nibble.
ArpaTrimRoundedUp(prefixLength) == 32 - ((prefixLength + 3) \div 4)

\* The number of reversed nibbles ipv6ToArpa keeps: 32 - prefixLength/4.
ArpaTrim(prefixLength) == 32 - (prefixLength \div 4)

\* The name of the reversed nibbles: the first trim of them, or all of them
\* with the ip6.arpa. suffix when trim is not below 32.
ArpaName(nibbles, trim) ==
  IF trim >= 0 /\ trim < 32
  THEN [err |-> FALSE, val |-> Join(SubSeq(nibbles, 1, trim), ".")]
  ELSE [err |-> FALSE, val |-> Join(nibbles, ".") \o ".ip6.arpa."]

\* ipv6ToArpa without the upper limit of the prefix length.
ArpaOfNoUpperLimit(ip, prefixLength) ==
  IF ~ip.ok \/ Len(To16(ip.ip)) = 0 THEN [err |-> TRUE, val |-> ""]
  ELSE IF prefixLength < 0 THEN [err |-> TRUE, val |-> ""]
  ELSE ArpaName(Reverse(Chars(HexEncode(To16(ip.ip)))), ArpaTrim(prefixLength))

\* ipv6ToArpa for the parsed address.
ArpaOf(ip, prefixLength) ==
  IF ~ip.ok \/ Len(To16(ip.ip)) = 0 THEN [err |-> TRUE, val |-> ""]
  ELSE IF prefixLength < 0 \/ prefixLength > 128 THEN [err |-> TRUE, val |-> ""]
  ELSE ArpaName(Reverse(Chars(HexEncode(To16(ip.ip)))), ArpaTrim(prefixLength))

\* ipv6ToArpa with a prefix length off a nibble boundary refused.
Ipv6ToArpaAlignedOnly(ipv6, prefixLength) ==
  IF ~isNibbleAligned(prefixLength) THEN [err |-> TRUE, val |-> ""]
  ELSE ArpaOf(ParseIP(ipv6), prefixLength)

\* ipv6ToArpa(ipv6, prefixLength): the reversed nibbles outside the prefix
\* joined by dots.
ipv6ToArpa(ipv6, prefixLength) == ArpaOf(ParseIP(ipv6), prefixLength)

\* The number of characters from position k on that fmt's scanNumber accepts
\* for %d: decimal digits and the underscore; the result is the position
\* after them.
RECURSIVE AcceptDecRun(_, _)
AcceptDecRun(s, k) ==
  IF k < Len(s) /\ IndexByte("0123456789_", Ch(s, k)) >= 0 THEN AcceptDecRun(s, k + 1) ELSE k

\* The length of the sign fmt's scanInt accepts in front of the digits.
SignLen(s) == IF Len(s) > 0 /\ (Ch(s, 0) = "+" \/ Ch(s, 0) = "-") THEN 1 ELSE 0

\* The digits without their leading zeros (one digit is kept).
RECURSIVE StripLeadingZeros(_)
StripLeadingZeros(d) ==
  IF Len(d) > 1 /\ Ch(d, 0) = "0" THEN StripLeadingZeros(Drop(d, 1)) ELSE d

\* d > limit for two texts of decimal digits of the same length.
RECURSIVE DigitsGreater(_, _)
DigitsGreater(d, limit) ==
  IF Len(d) = 0 THEN FALSE
  ELSE IF DecVal(Ch(d, 0)) # DecVal(Ch(limit, 0)) THEN DecVal(Ch(d, 0)) > DecVal(Ch(limit, 0))
  ELSE DigitsGreater(Drop(d, 1), Drop(limit, 1))

\* The digits d (no leading zeros) do not fit an int64 of the given sign.
Int64Overflows(d, neg) ==
  \/ Len(d) > 19
  \/ Len(d) = 19
     /\ DigitsGreater(d, IF neg THEN "9223372036854775808" ELSE "9223372036854775807")

\* The value of decimal digits; a value of 2^27 or more is kept as 2^27 (the
\* code only compares it with 0 and 128).
RECURSIVE DecMagnitude(_, _)
DecMagnitude(d, acc) ==
  IF Len(d) = 0 THEN acc
  ELSE IF acc * 10 + DecVal(Ch(d, 0)) >= Pow2(27) THEN Pow2(27)
  ELSE DecMagnitude(Drop(d, 1), acc * 10 + DecVal(Ch(d, 0)))

\* strconv.ParseInt(tok, 10, 64) of a sign of sg characters and the digits d:
\* an underscore is a syntax error, a value outside int64 a range error.
ParseIntDigits(neg, d) ==
  IF IndexByte(d, "_") >= 0 THEN [err |-> TRUE, val |-> 0]
  ELSE IF Int64Overflows(StripLeadingZeros(d), neg) THEN [err |-> TRUE, val |-> 0]
  ELSE [err |-> FALSE, val |-> IF neg THEN 0 - DecMagnitude(d, 0) ELSE DecMagnitude(d, 0)]

\* fmt's scanInt on the text t: the sign, then the digits up to position end;
\* whatever follows them is left unread.
ScanIntToken(t, sg, end) ==
  IF end = sg THEN [err |-> TRUE, val |-> 0]
  ELSE ParseIntDigits(sg = 1 /\ Ch(t, 0) = "-", SubSeq(t, sg + 1, end))

\* fmt's scanInt on the text t after its leading blanks.
ScanIntText(t) == ScanIntToken(t, SignLen(t), AcceptDecRun(t, SignLen(t)))

\* fmt.Sscanf(s, "%d", &pfx): an optional sign and the leading decimal digits
\* of s are scanned; the text after them is not looked at.
SscanfDecInt(s) == ScanIntText(SkipSpace(s))

\* Every failure of parseIPv6WithOptionalPrefix: nil, -1 and an error.
FailParse == [err |-> TRUE, val |-> [ip |-> <<>>, prefixLen |-> 0 - 1]]

\* A prefix length that clips the no-prefix marker to 0.
AcceptParsedClipped(ip, prefixLen) ==
  [err |-> FALSE, val |-> [ip |-> ip, prefixLen |-> IF prefixLen < 0 THEN 0 ELSE prefixLen]]

\* The success of parseIPv6WithOptionalPrefix: the address and the prefix
\* length found (-1 when there was none).
AcceptParsed(ip, prefixLen) == [err |-> FALSE, val |-> [ip |-> ip, prefixLen |-> prefixLen]]

\* parseIPv6WithOptionalPrefix once the address part is parsed.
ParseAddrPartWith(ip, prefixLen) ==
  IF ~ip.ok THEN FailParse
  ELSE IF Len(To16(ip.ip)) = 0 THEN FailParse
  ELSE AcceptParsed(To16(ip.ip), prefixLen)

\* The address part taken without asking for a colon in it.
ParseAddrPartAnyFamily(addr, prefixLen) == ParseAddrPartWith(ParseIP(addr), prefixLen)

\* The address part of parseIPv6WithOptionalPrefix: it has to hold a colon and
\* to parse.
ParseAddrPart(addr, prefixLen) ==
  IF IndexByte(addr, ":") < 0 THEN FailParse
  ELSE ParseAddrPartWith(ParseIP(addr), prefixLen)

\* parseIPv6WithOptionalPrefix for an input with a slash at idx; r is the scan
\* of the text after it.
ParsePrefixed(input, idx, r) ==
  IF r.err THEN FailParse
  ELSE IF r.val < 0 \/ r.val > 128 THEN FailParse
  ELSE ParseAddrPart(Take(input, idx), r.val)

\* parseIPv6WithOptionalPrefix for the position idx of the last slash (-1
\* when there is none).
ParseSplit(input, idx) ==
  IF idx # 0 - 1 THEN ParsePrefixed(input, idx, SscanfDecInt(Drop(input, idx + 1)))
  ELSE ParseAddrPart(input, 0 - 1)

\* parseIPv6WithOptionalPrefix(input): the 16-byte address and the prefix
\* length of "addr" or "addr/len".
parseIPv6WithOptionalPrefix(input) ==
  IF input = "" THEN FailParse ELSE ParseSplit(input, LastIndexByte(input, "/"))

\* The groups g .. 7 of fmt.Sprintf("%02x%02x:...:%02x%02x", b[0], ..., b[15]).
RECURSIVE ExpandGroups(_, _)
ExpandGroups(b, g) ==
  IF g >= 8 THEN ""
  ELSE (IF g > 0 THEN ":" ELSE "") \o Hex2(b[2 * g + 1]) \o Hex2(b[2 * g + 2])
       \o ExpandGroups(b, g + 1)

\* The groups written with %x: no zero padding.
ExpandIPv6Unpadded(ip) == Join([g \in 1..8 |-> HexStr(Group(To16(ip), g - 1))], ":")

\* expandIPv6(ip): the fully expanded 8-group, zero-padded text.
expandIPv6(ip) == ExpandGroups(To16(ip), 0)

\* compressIPv6(ip): ip.String().
compressIPv6(ip) == IPString(ip)

\* uppercaseIPv6(ip): strings.ToUpper(ip.String()).
uppercaseIPv6(ip) == ToUpper(IPString(ip))

\* urlIPv6(ip): fmt.Sprintf("[%s]", ip.String()).
urlIPv6(ip) == "[" \o IPString(ip) \o "]"

\* dottedIPv6(ip): the hex digits of the 16 bytes joined by dots.
dottedIPv6(ip) == Join(Chars(HexEncode(To16(ip))), ".")

\* fmt's %b of a non-negative value: no leading zeros.
RECURSIVE BinStr(_)
BinStr(v) == IF v < 2 THEN Ch("01", v) ELSE BinStr(v \div 2) \o Ch("01", v % 2)

\* n zero characters.
RECURSIVE ZeroText(_)
ZeroText(n) == IF n <= 0 THEN "" ELSE "0" \o ZeroText(n - 1)

\* fmt.Sprintf("%016b", val): the binary digits padded with zeros to 16.
Bin16Of(t) == ZeroText(16 - Len(t)) \o t
Bin16(val) == Bin16Of(BinStr(val))

\* The loop of binaryIPv6: the groups g .. 7 in binary, joined by colons.
RECURSIVE BinaryGroups(_, _)
BinaryGroups(b, g) ==
  IF g >= 8 THEN ""
  ELSE (IF g > 0 THEN ":" ELSE "") \o Bin16(b[2 * g + 1] * 256 + b[2 * g + 2])
       \o BinaryGroups(b, g + 1)

\* The groups written with %b: no zero padding.
BinaryIPv6Unpadded(ip) == Join([g \in 1..8 |-> BinStr(Group(To16(ip), g - 1))], ":")

\* binaryIPv6(ip): 8 colon-separated groups of 16 binary digits.
binaryIPv6(ip) == BinaryGroups(To16(ip), 0)

\* IP.Equal for two addresses of the same length, and for a 4-byte address
\* against its 16-byte form.
IPEqual(ip, x) ==
  IF Len(ip) = Len(x) THEN ip = x
  ELSE IF Len(ip) = 4 /\ Len(x) = 16 THEN V4InV6Prefix \o ip = x
  ELSE IF Len(ip) = 16 /\ Len(x) = 4 THEN ip = V4InV6Prefix \o x
  ELSE FALSE

\* net.IPv6unspecified and net.IPv6loopback.
IPv6unspecified == Zeros(16)
IPv6loopback == Zeros(15) \o <<1>>

\* The tests of classifyIPv6 on the bytes b, in the order of the code.
IsIPv4Mapped(b) == SubSeq(b, 1, 10) = Zeros(10) /\ b[11] = 255 /\ b[12] = 255
IsNat64WellKnown(b) == SubSeq(b, 1, 12) = <<0, 100, 255, 155, 0, 0, 0, 0, 0, 0, 0, 0>>
IsNat64NetworkSpecific(b) == SubSeq(b, 1, 6) = <<0, 100, 255, 155, 0, 1>>
IsDiscardOnly(b) == SubSeq(b, 1, 8) = <<1, 0, 0, 0, 0, 0, 0, 0>>
IsTeredo(b) == SubSeq(b, 1, 4) = <<32, 1, 0, 0>>
IsDocumentation(b) == SubSeq(b, 1, 4) = <<32, 1, 13, 184>>
Is6to4(b) == SubSeq(b, 1, 2) = <<32, 2>>
IsDocumentation3fff(b) == b[1] = 63 /\ b[2] = 255 /\ AndByte(b[3], 240, 8) = 0

\* The ULA test on the first byte alone, without the mask.
IsULAExact(b) == b[1] = 252

IsULA(b) == AndByte(b[1], 254, 8) = 252
IsLinkLocal(b) == b[1] = 254 /\ AndByte(b[2], 192, 8) = 128
IsMulticast(b) == b[1] = 255
IsGlobalUnicast(b) == AndByte(b[1], 224, 8) = 32

\* The scope taken from the high nibble of byte 1.
MulticastScopeHigh(b) == b[2] \div 16

\* scope := b[1] & 0x0f.
MulticastScope(b) == AndByte(b[2], 15, 8)

\* The switch of classifyIPv6 on the multicast scope.
ScopeName(scope) ==
  CASE scope = 1 -> "Interface-Local"
    [] scope = 2 -> "Link-Local"
    [] scope = 4 -> "Admin-Local"
    [] scope = 5 -> "Site-Local"
    [] scope = 8 -> "Organization-Local"
    [] scope = 14 -> "Global"
    [] OTHER -> "Unknown (0x" \o Hex2(scope) \o ")"

\* classifyIPv6 on the address and its 16 bytes: the first test that holds
\* gives the label.
ClassifyBytes(ip, b) ==
  IF IPEqual(ip, IPv6unspecified) THEN "Unspecified (::)"
  ELSE IF IPEqual(ip, IPv6loopback) THEN "Loopback (::1)"
  ELSE IF IsIPv4Mapped(b) THEN "IPv4-Mapped (::ffff:0:0/96)"
  ELSE IF IsNat64WellKnown(b) THEN "NAT64 Well-Known Prefix (64:ff9b::/96)"
  ELSE IF IsNat64NetworkSpecific(b) THEN "NAT64 Network-Specific (64:ff9b:1::/48)"
  ELSE IF IsDiscardOnly(b) THEN "Discard-Only (100::/64)"
  ELSE IF IsTeredo(b) THEN "Teredo (2001:0000::/32)"
  ELSE IF IsDocumentation(b) THEN "Documentation (2001:db8::/32)"
  ELSE IF Is6to4(b) THEN "6to4 (2002::/16)"
  ELSE IF IsDocumentation3fff(b) THEN "Documentation (3fff::/20)"
  ELSE IF IsULA(b) THEN "Unique Local Address (ULA, fc00::/7)"
  ELSE IF IsLinkLocal(b) THEN "Link-Local (fe80::/10)"
  ELSE IF IsMulticast(b) THEN "Multicast (ff00::/8), Scope: " \o ScopeName(MulticastScope(b))
  ELSE IF IsGlobalUnicast(b) THEN "Global Unicast (2000::/3)"
  ELSE "Reserved / Unknown"

\* classifyIPv6(ip): the label of the address type.
classifyIPv6(ip) == ClassifyBytes(ip, To16(ip))

\* The groups of compressionPermutations: each written with %x.
GroupTexts(b) ==
  <<HexStr(Group(b, 0)), HexStr(Group(b, 1)), HexStr(Group(b, 2)), HexStr(Group(b, 3)),
    HexStr(Group(b, 4)), HexStr(Group(b, 5)), HexStr(Group(b, 6)), HexStr(Group(b, 7))>>

\* The text with the groups [start, end] replaced by "::": the group after
\* the window is left out with it.
PermTextSkipsOne(groups, start, end) ==
  Join(SubSeq(groups, 1, start), ":") \o "::" \o Join(SubSeq(groups, end + 2, 8), ":")

\* The switch of compressionPermutations: the text with the groups
\* [start, end) replaced by "::".
PermText(groups, start, end) ==
  IF start = 0 /\ end = 8 THEN "::"
  ELSE IF start = 0 THEN "::" \o Join(SubSeq(groups, end + 1, 8), ":")
  ELSE IF end = 8 THEN Join(SubSeq(groups, 1, start), ":") \o "::"
  ELSE Join(SubSeq(groups, 1, start), ":") \o "::" \o Join(SubSeq(groups, end + 1, 8), ":")

\* The inner loop of compressionPermutations: the windows [start, end),
\* [start, end + 1), .. up to the first group that is not zero.
RECURSIVE PermEnds(_, _, _)
PermEnds(groups, start, end) ==
  IF end > 8 THEN <<>>
  ELSE IF groups[end] # "0" THEN <<>>
  ELSE <<PermText(groups, start, end)>> \o PermEnds(groups, start, end + 1)

\* A first window of one group.
FirstEndOne(start) == start + 1

\* The first end the inner loop tries: a window of two groups.
FirstEnd(start) == start + 2

\* The outer loop of compressionPermutations: the windows that start at a
\* zero group, from start on.
RECURSIVE PermStarts(_, _)
PermStarts(groups, start) ==
  IF start >= 8 THEN <<>>
  ELSE (IF groups[start + 1] # "0" THEN <<>> ELSE PermEnds(groups, start, FirstEnd(start)))
       \o PermStarts(groups, start + 1)

\* The deduplication of compressionPermutations: the first occurrence of each
\* text, in order.
RECURSIVE UniqueFrom(_, _, _)
UniqueFrom(results, k, seen) ==
  IF k > Len(results) THEN <<>>
  ELSE IF results[k] \in seen THEN UniqueFrom(results, k + 1, seen)
  ELSE <<results[k]>> \o UniqueFrom(results, k + 1, seen \cup {results[k]})

\* compressionPermutations(ip): every "::" abbreviation of two or more
\* consecutive zero groups.
compressionPermutations(ip) == UniqueFrom(PermStarts(GroupTexts(To16(ip)), 0), 1, {})

(***************************************************************************)
(* Bounds and inputs.                                                       *)
(***************************************************************************)

\* With limit = 0 the loop of generateSubnets is run to its end only for
\* prefix deltas up to MaxDelta (2^MaxDelta subnets).
MaxDelta == 3

\* The limits tried are 0 (unlimited) .. MaxLimit.
MaxLimit == 3

\* Prefix lengths are tried from -PrefixSlack to 128 + PrefixSlack.
PrefixSlack == 2

\* The addresses of the base blocks.
GenAddrs ==
  {"3fff::", "2001:db8:abcd::211:22ff:fe33:4455", "::ffff:0:0",
   "ffff:ffff:ffff:ffff:ffff:ffff:ffff:ffff", "::"}

\* The prefix lengths of the base blocks.
Currents == {0, 7, 32, 64, 96, 126}

\* The differences target - current: around zero, up to the enumeration
\* bound and one past it, and around the width of an int.
Deltas == (-1..(MaxDelta + 1)) \cup {31, 62, 63, 64, 65, 128}

Limits == 0..MaxLimit

\* MAC texts built from octets: in the rendering of fmt's %02x, and the same
\* in upper case.
MacOctetTexts ==
  LET lower == {MacString(<<a, b, 94, 0, 83, c>>) :
                  a \in {0, 1, 2, 3, 127, 128, 253, 254, 255}, b \in {0, 171}, c \in {37, 255}}
  IN  lower \cup {ToUpper(m) : m \in lower}

\* MAC texts of six colon-separated hex octets.
ValidMacs ==
  MacOctetTexts \cup {"00:11:22:33:44:55", "a:b:c:d:e:f", "0:1:2:3:4:5", "3c:22:fB:0d:9:10"}

\* Texts that are not six colon-separated hex octets.
InvalidMacs ==
  {"", "00:11:22:33:44", "00:11:22:33:44:55:66", "00:11:22:33:44:gg", "00:11:22:33:44:",
   "00-11-22-33-44-55", "00:11:22:33:44:100", "0011.2233.4455", "1g:22:33:44:55:66",
   "00:11:22:33:44:0x11", "00:11:22:33:44:5 5", " 0:11:22:33:44:55", "00:11:zz:33:44:55",
   "00:11:22:33:44:fff", "00:11::33:44:55", "00:11:22:33:4_4:55", "00:11:22:33:44:+5",
   "00:11:22:33:44:55:", "00:11:22:33:44:5.5"}

\* Texts given to linkLocalToMAC directly.
LinkLocalTexts ==
  {"fe80::0211:22ff:fe33:4455", "FE80::0211:22ff:fe33:4455", "fe80::1",
   "fe80::211:22ff:fe33:4455", "2001:db8::0211:22ff:fe33:4455", "xyzzy"}

\* Texts given to decodeMACFromSLAAC: EUI-64 addresses under several prefixes
\* and spellings, addresses without the marker or with half of it, an IPv4
\* address whose 16-byte form has FF FE at bytes 11 and 12, and texts that
\* are no address.
SlaacTexts ==
  {"2001:db8::0211:22ff:fe33:4455", "2001:db8:1:2:a8bb:ccff:fedd:eeff", "fe80::211:22ff:fe33:4455",
   "FE80::0211:22FF:FE33:4455", "::ff:fe00:0", "ffff:ffff:ffff:ffff:ffff:ffff:feff:ffff",
   "2001:db8::1", "2001:db8::211:22ff:ee33:4455", "2001:db8::211:22fe:fe33:4455",
   "2001:db8::211:22ff:33fe:4455", "254.1.2.3", "192.168.1.1", "xyzzy", ""}

\* IPv4 addresses in dotted decimal.
ValidIPv4s ==
  {"8.8.8.8", "192.168.1.1", "0.0.0.0", "255.255.255.255", "100.64.1.1", "10.0.0.255", "1.20.255.0"}

\* Texts that are no IPv4 address.
InvalidIPv4s == {"", "256.1.1.1", "1.2.3", "1.2.3.4.5", "01.2.3.4", "64:ff9b::", "a.b.c.d"}

\* Texts of 16-byte prefixes.
ValidPrefixes ==
  {"64:ff9b::", "64:ff9b:1::", "2001:db8:122:344::", "::ffff:0:0", "::",
   "ffff:ffff:ffff:ffff:ffff:ffff:ffff:ffff", "2001:DB8:0:0:1::", "fe80::1:2:3:4"}

\* Texts that are no address.
InvalidPrefixes == {"", "64:ff9b::/96", "64:ff9b", "1::2::3"}

\* Texts of addresses given to synthesizedToIPv4 directly.
SynthesizedTexts == {"64:ff9b::c0a8:101", "64:ff9b::808:808", "8.8.8.8", "xyzzy"}

\* Texts of addresses given to ipv6ToArpa.
ValidAddrs ==
  {"2001:db8:abcd::0211:22ff:fe33:4455", "::", "::1", "ffff:ffff:ffff:ffff:ffff:ffff:ffff:ffff",
   "fedc:ba98:7654:3210:0123:4567:89ab:cdef", "::ffff:192.168.1.1", "FE80::A:0:0:1"}

\* Texts that net.ParseIP has to refuse.
InvalidAddrs ==
  {"xyzzy", "", "1::2::3", "12345::", "2001:db8::g", "fe80::1%eth0", ":", "1:2:3:4:5:6:7",
   "::1/64", "1:2:3:4:5:6:7:8:9", "1:2:3:4:5:6:7::8", "::1.2.3", "1.2.3.4.5"}

ArpaPrefixLengths == (0 - PrefixSlack)..(128 + PrefixSlack)

\* Address parts given to parseIPv6WithOptionalPrefix: IPv6 literals, and
\* texts that are none.
ParseAddrTexts ==
  {"2001:db8::1", "::1", "2001:0db8:0000:0000:0000:0000:0000:0001", "::ffff:192.168.1.1",
   "FE80::A:0:0:1", "::", "", "192.168.1.1", "not-an-address", "1::2::3", "2001:db8::g",
   "fe80::1%eth0", ":", "1:2:3", "2001:db8::/32"}

\* What follows the address part: nothing, or a slash and a text.
ParseSuffixes ==
  {"", "/0", "/48", "/128", "/064", "/129", "/-1", "/", "/abc", "/48abc", "/4 8", "/ 48",
   "/+48", "/-0", "/4_8", "/0x30", "/1e2", "/128.0", "/99999999999999999999", "/1000", "/48/"}

\* The addresses the renderings are asked for.
FormatAddrs ==
  {ParseIP(t).ip : t \in
     {"::", "::1", "2001:db8::1", "2001:db8:0:0:1:0:0:1", "1:0:0:0:2:0:0:3", "1:0:0:2:0:0:0:3",
      "2001:db8:1:2:3:4:5:6", "1:0:2:0:3:0:4:0", "ffff:ffff:ffff:ffff:ffff:ffff:ffff:ffff",
      "fedc:ba98:7654:3210:0123:4567:89ab:cdef", "::ffff:192.168.1.1", "::ffff:0:0", "0:0:1::",
      "1::", "a:b:c:d:e:f:0:0", "0:1::", "1:0:0:1::", "2001:db8:0:0:1::", "0:0:0:1:0:0:0:0",
      "a00:0:0:b0:0:0:c:0", "::fffe:1.2.3.4", "1::1:0:0"}}

\* The last 12 bytes of the addresses classifyIPv6 is asked for.
ClassifyTails ==
  {Zeros(12), Zeros(11) \o <<1>>, <<255, 255, 255, 255, 255, 255, 255, 255, 255, 255, 255, 255>>,
   <<0, 1>> \o Zeros(10), Zeros(6) \o <<255, 255, 1, 2, 3, 4>>, Zeros(4) \o <<1, 2, 3, 4, 5, 6, 7, 8>>}

\* The addresses classifyIPv6 is asked for: the bytes at and next to the
\* boundaries of its ranges, and every multicast scope under several flags.
ClassifyAddrs ==
  {<<b0, b1>> \o b23 \o tail :
     b0 \in {0, 1, 31, 32, 63, 64, 251, 252, 253, 254, 255},
     b1 \in {0, 1, 2, 100, 127, 128, 191, 192, 255},
     b23 \in {<<0, 0>>, <<13, 184>>, <<255, 155>>, <<15, 255>>, <<16, 0>>},
     tail \in ClassifyTails}
  \cup {<<255, 16 * flags + scope, 0, 0>> \o tail :
          flags \in {0, 1, 3, 15}, scope \in 0..15,
          tail \in {Zeros(12), Zeros(11) \o <<1>>, Zeros(6) \o <<255, 255, 1, 2, 3, 4>>}}

(***************************************************************************)
(* The state: one call at a time, as main makes them.                       *)
(***************************************************************************)

VARIABLES
  pc,            \* "idle", "loop" and "sort" (inside generateSubnets), "done", "panic"
  op,            \* the function called last
  args,          \* its arguments
  ret,           \* its result: [err, val]
  chain,         \* the call whose result was passed on to this one, or NoCall
  subnetCount,   \* generateSubnets: the int 1 << (new - current)
  prefixIP,      \* generateSubnets: the running address
  increment,     \* generateSubnets: the big.Int 2^(128 - new)
  i,             \* generateSubnets: the loop counter
  subnets,       \* generateSubnets: the list built so far
  stdout,        \* what the call has printed with fmt.Printf
  logged         \* what the call has logged with log.Println

vars == <<pc, op, args, ret, chain, subnetCount, prefixIP, increment, i, subnets, stdout, logged>>

NoCall == [op |-> "none"]
NoRet == [err |-> FALSE, val |-> ""]

frameVars == <<subnetCount, prefixIP, increment, i, subnets>>

Init ==
  /\ pc = "idle"
  /\ op = "none"
  /\ args = <<>>
  /\ ret = NoRet
  /\ chain = NoCall
  /\ subnetCount = IntZero
  /\ prefixIP = <<>>
  /\ increment = <<>>
  /\ i = 0
  /\ subnets = <<>>
  /\ stdout = <<>>
  /\ logged = <<>>

\* A call of a function without loop state: it returns at once.
Returns(name, a, r, from, log) ==
  /\ pc' = "done"
  /\ op' = name
  /\ args' = a
  /\ ret' = r
  /\ chain' = from
  /\ logged' = log
  /\ UNCHANGED <<frameVars, stdout>>

\* A call that logs its warning unless it fails before it comes to it.
ReturnsWarned(name, a, r, warning) ==
  Returns(name, a, r, NoCall, IF r.err THEN <<>> ELSE warning)

\* main, -count: countSubnets(prefix, newPrefixLength).
CallCountSubnets ==
  /\ pc = "idle"
  /\ \E addr \in GenAddrs, cur \in Currents, d \in Deltas :
       /\ cur + d <= 128 + PrefixSlack
       /\ Returns("countSubnets", [addr |-> addr, cur |-> cur, new |-> cur + d],
                  countSubnets(addr \o "/" \o IntStr(cur), cur + d), NoCall, <<>>)

\* generateSubnets up to its loop, for the parsed block ipnet: the warning,
\* the refusal of a target that is not longer, the count, the masked base and
\* the step.
EnterWith(a, ipnet, currentPrefixLength, warning) ==
  /\ op' = "generateSubnets"
  /\ args' = a
  /\ chain' = NoCall
  /\ IF ~ipnet.ok
     THEN /\ pc' = "done"
          /\ ret' = [err |-> TRUE, val |-> <<>>]
          /\ UNCHANGED <<frameVars, stdout, logged>>
     ELSE IF a.new <= currentPrefixLength
     THEN /\ pc' = "done"
          /\ ret' = [err |-> TRUE, val |-> <<>>]
          /\ logged' = warning
          /\ UNCHANGED <<frameVars, stdout>>
     ELSE IF a.new > 128
     THEN \* uint(128 - newPrefixLength) wraps around to a shift count near
          \* 2^64, and increment.Lsh panics when it makes room for the result
          /\ pc' = "panic"
          /\ ret' = NoRet
          /\ logged' = warning
          /\ subnetCount' = IntShl1(a.new - currentPrefixLength)
          /\ stdout' = <<[format |-> "Generating %d prefixes...\n",
                          arg |-> IntShl1(a.new - currentPrefixLength)]>>
          /\ subnets' = <<>>
          /\ prefixIP' = IPMask(ipnet.ip, ipnet.mask)
          /\ UNCHANGED <<increment, i>>
     ELSE \* the loop is followed to its end only when it ends within the bounds
          /\ a.limit > 0 \/ ~IntLess(Pow2(MaxDelta), IntShl1(a.new - currentPrefixLength))
          /\ pc' = "loop"
          /\ ret' = NoRet
          /\ logged' = warning
          /\ subnetCount' = IntShl1(a.new - currentPrefixLength)
          /\ stdout' = <<[format |-> "Generating %d prefixes...\n",
                          arg |-> IntShl1(a.new - currentPrefixLength)]>>
          /\ subnets' = <<>>
          /\ prefixIP' = IPMask(ipnet.ip, ipnet.mask)
          /\ increment' = BigLsh1(128 - a.new)
          /\ i' = 0

\* The block of EnterWith, parsed once.
EnterParsed(a, ipnet) ==
  EnterWith(a, ipnet, MaskSize(ipnet.mask),
            NibbleWarning(a.new, "Warning: new prefix length is not on a nibble boundary"))

\* main, the default: generateSubnets(prefix, newPrefixLength, limit) is
\* entered.
GenerateSubnetsEnter ==
  /\ pc = "idle"
  /\ \E addr \in GenAddrs, cur \in Currents, d \in Deltas, limit \in Limits :
       /\ cur + d <= 128 + PrefixSlack
       /\ EnterParsed([addr |-> addr, cur |-> cur, new |-> cur + d, limit |-> limit],
                      ParseCIDR(addr \o "/" \o IntStr(cur)))

\* The body of the loop of generateSubnets with the list as appended to.
IterateWith(appended) ==
  /\ subnets' = appended
  /\ prefixIP' = addBigIntToIP(prefixIP, increment)
  /\ IF args.limit > 0 /\ Len(appended) >= args.limit
     THEN pc' = "sort" /\ i' = i
     ELSE pc' = "loop" /\ i' = i + 1

\* One turn of the loop of generateSubnets: the running address is appended
\* as text and stepped; the loop is left when the counter reaches the count
\* or the limit is reached.
GenerateSubnetsIterate ==
  /\ pc = "loop"
  /\ IF IntLess(i, subnetCount)
     THEN IterateWith(Append(subnets, IPString(prefixIP) \o "/" \o IntStr(args.new)))
     ELSE /\ pc' = "sort"
          /\ UNCHANGED <<subnets, prefixIP, i>>
  /\ UNCHANGED <<op, args, ret, chain, subnetCount, increment, stdout, logged>>

\* The return of generateSubnets with the sorted list.
ReturnSorted(sorted) ==
  /\ subnets' = sorted
  /\ ret' = [err |-> FALSE, val |-> sorted]

\* The end of generateSubnets: the list is sorted and returned.
GenerateSubnetsReturn ==
  /\ pc = "sort"
  /\ pc' = "done"
  /\ ReturnSorted(SortSubnets(subnets))
  /\ UNCHANGED <<op, args, chain, subnetCount, prefixIP, increment, i, stdout, logged>>

\* main, -local with a MAC: macToLinkLocal(mac).
CallMacToLinkLocal ==
  /\ pc = "idle"
  /\ \E mac \in ValidMacs \cup InvalidMacs :
       Returns("macToLinkLocal", [mac |-> mac], macToLinkLocal(mac), NoCall, <<>>)

\* main, -local with an address: linkLocalToMAC, of a given text or of the
\* address macToLinkLocal has just returned.
CallLinkLocalToMAC ==
  \/ /\ pc = "idle"
     /\ \E ipv6 \in LinkLocalTexts :
          Returns("linkLocalToMAC", [ipv6 |-> ipv6], linkLocalToMAC(ipv6), NoCall, <<>>)
  \/ /\ pc = "done" /\ op = "macToLinkLocal" /\ ~ret.err
     /\ Returns("linkLocalToMAC", [ipv6 |-> ret.val], linkLocalToMAC(ret.val),
                [op |-> op, args |-> args, ret |-> ret], <<>>)

\* main, -m: decodeMACFromSLAAC(macInput).
CallDecodeMACFromSLAAC ==
  /\ pc = "idle"
  /\ \E ipv6 \in SlaacTexts \cup LinkLocalTexts :
       Returns("decodeMACFromSLAAC", [ipv6 |-> ipv6], decodeMACFromSLAAC(ipv6), NoCall, <<>>)

\* main, -s with an IPv4 address: ipv4ToSynthesized(source, prefix).
CallIpv4ToSynthesized ==
  /\ pc = "idle"
  /\ \E ipv4Addr \in ValidIPv4s \cup InvalidIPv4s, prefix \in ValidPrefixes \cup InvalidPrefixes :
       Returns("ipv4ToSynthesized", [ipv4Addr |-> ipv4Addr, prefix |-> prefix],
               ipv4ToSynthesized(ipv4Addr, prefix), NoCall, <<>>)

\* main, -s with an IPv6 address: synthesizedToIPv4, of a given text or of
\* the address ipv4ToSynthesized has just returned.
CallSynthesizedToIPv4 ==
  \/ /\ pc = "idle"
     /\ \E a \in SynthesizedTexts :
          Returns("synthesizedToIPv4", [synthesizedAddr |-> a], synthesizedToIPv4(a), NoCall, <<>>)
  \/ /\ pc = "done" /\ op = "ipv4ToSynthesized" /\ ~ret.err
     /\ Returns("synthesizedToIPv4", [synthesizedAddr |-> ret.val], synthesizedToIPv4(ret.val),
                [op |-> op, args |-> args, ret |-> ret], <<>>)

\* main, -ip6.arpa: ipv6ToArpa(address, newPrefixLength).
CallIpv6ToArpa ==
  /\ pc = "idle"
  /\ \E ipv6 \in ValidAddrs \cup InvalidAddrs, prefixLength \in ArpaPrefixLengths :
       ReturnsWarned("ipv6ToArpa", [ipv6 |-> ipv6, prefixLength |-> prefixLength],
                     ipv6ToArpa(ipv6, prefixLength),
                     NibbleWarning(prefixLength, "Warning: prefix length is not on a nibble boundary"))

\* A call of a function that returns a value and no error.
ReturnsValue(name, a, v) == Returns(name, a, [err |-> FALSE, val |-> v], NoCall, <<>>)

\* formatIPv6: parseIPv6WithOptionalPrefix(input).
CallParseIPv6WithOptionalPrefix ==
  /\ pc = "idle"
  /\ \E addr \in ParseAddrTexts, suffix \in ParseSuffixes :
       Returns("parseIPv6WithOptionalPrefix", [input |-> addr \o suffix],
               parseIPv6WithOptionalPrefix(addr \o suffix), NoCall, <<>>)

\* formatIPv6: expandIPv6(ip).
CallExpandIPv6 ==
  /\ pc = "idle"
  /\ \E ip \in FormatAddrs : ReturnsValue("expandIPv6", [ip |-> ip], expandIPv6(ip))

\* formatIPv6: compressIPv6(ip).
CallCompressIPv6 ==
  /\ pc = "idle"
  /\ \E ip \in FormatAddrs : ReturnsValue("compressIPv6", [ip |-> ip], compressIPv6(ip))

\* formatIPv6: uppercaseIPv6(ip).
CallUppercaseIPv6 ==
  /\ pc = "idle"
  /\ \E ip \in FormatAddrs : ReturnsValue("uppercaseIPv6", [ip |-> ip], uppercaseIPv6(ip))

\* formatIPv6: urlIPv6(ip).
CallUrlIPv6 ==
  /\ pc = "idle"
  /\ \E ip \in FormatAddrs : ReturnsValue("urlIPv6", [ip |-> ip], urlIPv6(ip))

\* formatIPv6: dottedIPv6(ip).
CallDottedIPv6 ==
  /\ pc = "idle"
  /\ \E ip \in FormatAddrs : ReturnsValue("dottedIPv6", [ip |-> ip], dottedIPv6(ip))

\* formatIPv6: binaryIPv6(ip).
CallBinaryIPv6 ==
  /\ pc = "idle"
  /\ \E ip \in FormatAddrs : ReturnsValue("binaryIPv6", [ip |-> ip], binaryIPv6(ip))

\* formatIPv6: classifyIPv6(ip).
CallClassifyIPv6 ==
  /\ pc = "idle"
  /\ \E ip \in ClassifyAddrs \cup FormatAddrs :
       ReturnsValue("classifyIPv6", [ip |-> ip], classifyIPv6(ip))

\* formatIPv6: compressionPermutations(ip).
CallCompressionPermutations ==
  /\ pc = "idle"
  /\ \E ip \in FormatAddrs :
       ReturnsValue("compressionPermutations", [ip |-> ip], compressionPermutations(ip))

\* The call is over, returned or ended by a panic: the program is run again.
Return ==
  /\ pc \in {"done", "panic"}
  /\ pc' = "idle"
  /\ op' = "none"
  /\ args' = <<>>
  /\ ret' = NoRet
  /\ chain' = NoCall
  /\ subnetCount' = IntZero
  /\ prefixIP' = <<>>
  /\ increment' = <<>>
  /\ i' = 0
  /\ subnets' = <<>>
  /\ stdout' = <<>>
  /\ logged' = <<>>

Next ==
  \/ CallCountSubnets
  \/ GenerateSubnetsEnter
  \/ GenerateSubnetsIterate
  \/ GenerateSubnetsReturn
  \/ CallMacToLinkLocal
  \/ CallLinkLocalToMAC
  \/ CallDecodeMACFromSLAAC
  \/ CallIpv4ToSynthesized
  \/ CallSynthesizedToIPv4
  \/ CallIpv6ToArpa
  \/ CallParseIPv6WithOptionalPrefix
  \/ CallExpandIPv6
  \/ CallCompressIPv6
  \/ CallUppercaseIPv6
  \/ CallUrlIPv6
  \/ CallDottedIPv6
  \/ CallBinaryIPv6
  \/ CallClassifyIPv6
  \/ CallCompressionPermutations
  \/ Return

Spec == Init /\ [][Next]_vars

(***************************************************************************)
(* What the properties below are stated with: arithmetic on the 128 bits of *)
(* an address and readings of the input texts that do not go through the    *)
(* functions under check.                                                   *)
(***************************************************************************)

\* The states in which a call of the function has returned.
Returned(name) == pc = "done" /\ op = name

\* The number of bits of byte b (1 is the most significant) that lie inside
\* a prefix of cur bits.
BitsInside(cur, b) ==
  IF cur >= 8 * b THEN 8 ELSE IF cur <= 8 * (b - 1) THEN 0 ELSE cur - 8 * (b - 1)

\* Byte b of the address with every bit below the prefix boundary cleared.
MaskedByte(ip, cur, b) == ip[b] - (ip[b] % Pow2(8 - BitsInside(cur, b)))

\* Byte b of n * 2^shift for a small n (a list index): the bits of the product
\* from bit low = 8 * (16 - b) on.
ScaledBits(n, shift, low) ==
  IF shift >= low + 8 THEN 0
  ELSE IF shift >= low THEN ((n % 256) * Pow2(shift - low)) % 256
  ELSE IF low - shift > 30 THEN 0
  ELSE (n \div Pow2(low - shift)) % 256
ScaledByte(n, shift, b) == ScaledBits(n, shift, 8 * (16 - b))

\* The bytes b .. 1 of mask(ip, cur) + n * 2^shift, added byte by byte from
\* the least significant with the carry handed on; a carry out of the first
\* byte is a 17th byte in front.
RECURSIVE SumBytes(_, _, _, _, _, _)
SumBytes(ip, cur, n, shift, b, carry) ==
  IF b = 0 THEN (IF carry = 0 THEN <<>> ELSE <<carry>>)
  ELSE SumBytes(ip, cur, n, shift, b - 1,
                (MaskedByte(ip, cur, b) + ScaledByte(n, shift, b) + carry) \div 256)
       \o <<(MaskedByte(ip, cur, b) + ScaledByte(n, shift, b) + carry) % 256>>

\* A_n = mask(base, cur) + n * 2^(128 - new) as 16 bytes (17 when the sum
\* does not fit 128 bits).
SubnetAddr(base, cur, new, n) == SumBytes(base, cur, n, 128 - new, 16, 0)

\* The entry e is the text of the address ip with the length new: its address
\* part reads back as ip, its length part is new in decimal, and the whole is
\* the text IP.String and %d give.
EntryIs(e, ip, new) ==
  /\ Len(ip) = 16
  /\ IndexByte(e, "/") >= 0
  /\ ParseIP(Take(e, IndexByte(e, "/"))).ip = ip
  /\ Drop(e, IndexByte(e, "/") + 1) = IntStr(new)
  /\ e = IPString(ip) \o "/" \o IntStr(new)

\* The list holds A_0 .. A_(Len-1) of the call a, in this order.
EntriesAre(list, a) ==
  \A n \in 1..Len(list) :
    EntryIs(list[n], SubnetAddr(ParseIP(a.addr).ip, a.cur, a.new, n - 1), a.new)

\* The int c is 2^d: that takes d <= 62, and bit d alone set.
IntIsPow2(c, d) ==
  /\ d < IntBits - 1
  /\ \A k \in 1..IntBits : c[k] = (IF k = d + 1 THEN 1 ELSE 0)

\* The length n of a list is 2^d (a list that can be held has fewer than 2^31
\* entries).
LenIsPow2(n, d) == d <= 30 /\ n = Pow2(d)

\* min(k, 2^d) for a small k.
MinOfLimit(k, d) == IF d <= 30 /\ Pow2(d) < k THEN Pow2(d) ELSE k

\* a < b as 128-bit numbers, for two 16-byte addresses.
NumLess(a, b) ==
  /\ Len(a) = 16 /\ Len(b) = 16
  /\ \E k \in 1..16 : a[k] < b[k] /\ \A j \in 1..(k - 1) : a[j] = b[j]

\* Every character of t is a hex digit.
IsHexText(t) == \A k \in 0..(Len(t) - 1) : IndexByte("0123456789abcdefABCDEF", Ch(t, k)) >= 0

\* The parts are six octets of one or two hex digits.
AreMacOctets(parts) ==
  /\ Len(parts) = 6
  /\ \A k \in 1..6 : Len(parts[k]) \in {1, 2} /\ IsHexText(parts[k])

\* m is a syntactically valid MAC: six colon-separated hex octets.
IsMacText(m) == AreMacOctets(Split(m, ":"))

\* The lower-case form of a hex text.
RECURSIVE ToLower(_)
ToLower(t) ==
  IF t = "" THEN ""
  ELSE (IF IndexByte("ABCDEF", Ch(t, 0)) >= 0
        THEN Ch("abcdef", IndexByte("ABCDEF", Ch(t, 0)))
        ELSE Ch(t, 0)) \o ToLower(Drop(t, 1))

\* An octet as the MAC rendering writes it: two lower-case hex digits.
CanonOctet(t) == IF Len(t) = 1 THEN "0" \o ToLower(t) ELSE ToLower(t)

\* The MAC of the text m in the rendering of a MAC value: six lower-case
\* two-digit octets joined by colons.
CanonMacOf(parts) ==
  CanonOctet(parts[1]) \o ":" \o CanonOctet(parts[2]) \o ":" \o CanonOctet(parts[3]) \o ":"
  \o CanonOctet(parts[4]) \o ":" \o CanonOctet(parts[5]) \o ":" \o CanonOctet(parts[6])
CanonMac(m) == CanonMacOf(Split(m, ":"))

\* The value of a text of decimal digits.
RECURSIVE DecValue(_, _)
DecValue(t, acc) == IF t = "" THEN acc ELSE DecValue(Drop(t, 1), acc * 10 + DecVal(Ch(t, 0)))

\* t is a decimal octet: one to three digits, no leading zero, at most 255.
IsDecOctet(t) ==
  /\ Len(t) \in 1..3
  /\ \A k \in 0..(Len(t) - 1) : DecVal(Ch(t, k)) >= 0
  /\ Len(t) > 1 => Ch(t, 0) # "0"
  /\ DecValue(t, 0) <= 255

\* The parts are the four octets of a dotted quad.
AreDecOctets(parts) == Len(parts) = 4 /\ \A k \in 1..4 : IsDecOctet(parts[k])

\* s is an IPv4 address in dotted decimal.
IsIPv4Text(s) == AreDecOctets(Split(s, "."))

\* Nibble n (0 is the most significant) of a 16-byte address.
NibbleOf(ip, n) == IF n % 2 = 0 THEN ip[(n \div 2) + 1] \div 16 ELSE ip[(n \div 2) + 1] % 16

\* The labels k .. n-1 of the reverse name: label k is nibble 31 - k.
RECURSIVE ArpaLabels(_, _, _)
ArpaLabels(ip, k, n) ==
  IF k >= n THEN <<>>
  ELSE <<Ch("0123456789abcdef", NibbleOf(ip, 31 - k))>> \o ArpaLabels(ip, k + 1, n)

\* The name carries the suffix of the reverse zone.
HasArpaSuffix(name) == HasSuffix(name, ".ip6.arpa.")

\* The name without the suffix of the reverse zone.
WithoutArpaSuffix(name) ==
  IF HasArpaSuffix(name) THEN Take(name, Len(name) - Len(".ip6.arpa.")) ELSE name

\* ipv6ToArpa has returned for an address that parses and a prefix length in
\* 0..128.
ArpaReturnedValid ==
  /\ Returned("ipv6ToArpa")
  /\ args.ipv6 \in ValidAddrs
  /\ args.prefixLength \in 0..128

(***************************************************************************)
(* The properties.                                                          *)
(***************************************************************************)

\* C1: for every base block and every target with current < target <= 128
\* the subnet count is exactly 2^(target - current): countSubnets returns
\* that value, and generateSubnets with limit = 0 returns a list of exactly
\* that many entries, deltas of 63, 64 and 128 included.
C1_CountIsPowerOfTwo ==
  /\ (Returned("countSubnets") /\ args.new > args.cur)
       => (~ret.err /\ IntIsPow2(ret.val, args.new - args.cur))
  /\ (Returned("generateSubnets") /\ args.new > args.cur /\ args.limit = 0)
       => (~ret.err /\ LenIsPow2(Len(ret.val), args.new - args.cur))

\* C2: for every base block, every target > current and every limit k > 0
\* generateSubnets returns exactly min(k, 2^(target - current)) entries, and
\* they are the first entries of the unlimited sequence A_0, A_1, ...
C2_LimitedCount ==
  (Returned("generateSubnets") /\ args.new > args.cur /\ args.limit > 0)
    => /\ ~ret.err
       /\ Len(ret.val) = MinOfLimit(args.limit, args.new - args.cur)
       /\ EntriesAre(ret.val, args)

\* C3: the list generateSubnets returns is strictly ascending by the 128-bit
\* value of the address part of its entries: no two entries are equal and the
\* sequence does not wrap around, whatever the base block, target and limit.
C3_StrictlyAscending ==
  (Returned("generateSubnets") /\ ~ret.err)
    => \A n \in 1..(Len(ret.val) - 1) : NumLess(EntryIP(ret.val[n]), EntryIP(ret.val[n + 1]))

\* The full enumeration of 2^MaxDelta subnets has been returned.
C3_Witness ==
  /\ Returned("generateSubnets") /\ ~ret.err
  /\ args.limit = 0
  /\ Len(ret.val) = Pow2(MaxDelta)

\* C4: the i-th entry generateSubnets returns is the text A_i/target with
\* A_i = mask(base, current) + i * 2^(128 - target), an exact 128-bit sum
\* with the carries taken through all 16 bytes; entry 0 is the base address
\* with every bit below the prefix boundary cleared, host bits of the input
\* included.
C4_EntriesAreExactSums ==
  (Returned("generateSubnets") /\ ~ret.err) => EntriesAre(ret.val, args)

\* A base with host bits set, split from /7 to /9: the third step carries
\* from the second byte into the first.
C4_Witness ==
  /\ Returned("generateSubnets") /\ ~ret.err
  /\ args.addr = "2001:db8:abcd::211:22ff:fe33:4455" /\ args.cur = 7 /\ args.new = 9
  /\ ret.val = <<"2000::/9", "2080::/9", "2100::/9", "2180::/9">>

\* C5: generateSubnets and countSubnets return an error, with no subnets and
\* the count 0, whenever target <= current, and never return it when
\* target > current.
C5_ErrorIffTargetNotLonger ==
  /\ (Returned("countSubnets") /\ args.new <= args.cur)
       => (ret.err /\ \A k \in 1..IntBits : ret.val[k] = 0)
  /\ (Returned("countSubnets") /\ args.new > args.cur) => ~ret.err
  /\ (Returned("generateSubnets") /\ args.new <= args.cur) => (ret.err /\ ret.val = <<>>)
  /\ (Returned("generateSubnets") /\ args.new > args.cur) => ~ret.err
  /\ (op = "generateSubnets" /\ pc # "done") => args.new > args.cur

\* Both functions have refused a target equal to the current prefix length.
C5_Witness ==
  /\ pc = "done" /\ op \in {"countSubnets", "generateSubnets"}
  /\ args.new = args.cur
  /\ ret.err

C7_SynthesisRoundTrip ==
  /\ (Returned("ipv4ToSynthesized") /\ IsIPv4Text(args.ipv4Addr) /\ args.prefix \in ValidPrefixes)
       => ~ret.err
  /\ (Returned("synthesizedToIPv4") /\ chain.op = "ipv4ToSynthesized"
      /\ IsIPv4Text(chain.args.ipv4Addr))
       => (~ret.err /\ ret.val = chain.args.ipv4Addr)

\* 8.8.8.8 under 64:ff9b:: has made the round trip.
C7_Witness ==
  /\ Returned("synthesizedToIPv4") /\ chain.op = "ipv4ToSynthesized"
  /\ chain.args.ipv4Addr = "8.8.8.8" /\ chain.ret.val = "64:ff9b::808:808"
  /\ ~ret.err /\ ret.val = "8.8.8.8"

\* C8: for every valid address and every prefix length p in 0..128 the name
\* ipv6ToArpa returns ends with .ip6.arpa. if and only if p = 0; for p in
\* 1..128, p = 1, 2 and 3 included, it carries no suffix.
C8_SuffixIffZero ==
  ArpaReturnedValid => (~ret.err /\ (HasArpaSuffix(ret.val) <=> args.prefixLength = 0))

\* C9: for every valid address and every p in 0..128 the labels of the name
\* ipv6ToArpa returns are exactly the first 32 - floor(p/4) nibbles of the
\* address taken least significant first (label i is nibble 31 - i), joined
\* by dots: 32 labels for p = 0, 18 for p = 56, the empty name for p = 128.
C9_LabelsAreReversedNibbles ==
  ArpaReturnedValid
    => /\ ~ret.err
       /\ WithoutArpaSuffix(ret.val)
            = Join(ArpaLabels(ParseIP(args.ipv6).ip, 0, 32 - (args.prefixLength \div 4)), ".")

\* The name of the documented address under a /56.
C9_Witness ==
  /\ ArpaReturnedValid
  /\ args.ipv6 = "2001:db8:abcd::0211:22ff:fe33:4455" /\ args.prefixLength = 56
  /\ ret.val = "5.5.4.4.3.3.e.f.f.f.2.2.1.1.2.0.0.0"

\* C10: ipv6ToArpa returns an error and an empty name for every prefix
\* length p < 0 or p > 128, whatever the address, and for every text that is
\* no parseable address, whatever p.
C10_ArpaErrors ==
  (Returned("ipv6ToArpa")
   /\ (args.prefixLength < 0 \/ args.prefixLength > 128 \/ args.ipv6 \in InvalidAddrs))
    => (ret.err /\ ret.val = "")

\* A valid address has been refused for the prefix length 129.
C10_Witness ==
  /\ Returned("ipv6ToArpa")
  /\ args.ipv6 \in ValidAddrs /\ args.prefixLength = 129
  /\ ret.err /\ ret.val = ""

\* parseIPv6WithOptionalPrefix has returned.
ParseReturned == Returned("parseIPv6WithOptionalPrefix")

\* The position of the last slash of the text, or -1.
LastSlash(t) ==
  IF \A k \in 0..(Len(t) - 1) : Ch(t, k) # "/" THEN 0 - 1
  ELSE CHOOSE k \in 0..(Len(t) - 1) :
         Ch(t, k) = "/" /\ \A j \in (k + 1)..(Len(t) - 1) : Ch(t, j) # "/"

\* The text after the last slash, and the text before it (the whole text
\* when there is no slash).
TextAfterSlash(t) == SubSeq(t, LastSlash(t) + 2, Len(t))
TextBeforeSlash(t) == IF LastSlash(t) < 0 THEN t ELSE SubSeq(t, 1, LastSlash(t))

\* t is n in decimal digits, leading zeros allowed.
DecimalText(n, t) ==
  \E k \in 0..(Len(t) - 1) : Take(t, k) = ZeroText(k) /\ Drop(t, k) = IntStr(n)

\* The whole of t is the base-10 integer n >= 0, a sign allowed.
NamesInteger(t, n) ==
  \/ DecimalText(n, t)
  \/ Len(t) > 1 /\ Ch(t, 0) = "+" /\ DecimalText(n, Drop(t, 1))
  \/ Len(t) > 1 /\ Ch(t, 0) = "-" /\ n = 0 /\ DecimalText(0, Drop(t, 1))

\* The whole of t is a base-10 integer in 0..128.
IsPrefixLengthText(t) == \E n \in 0..128 : NamesInteger(t, n)

\* C11: parseIPv6WithOptionalPrefix fails whenever the input holds a slash
\* and the whole text after the last slash is not a base-10 integer in
\* 0..128 (empty, trailing characters as in 48abc, negative, above 128); it
\* accepts the prefix only when that whole text is such an integer.
C11_PrefixTextMustBeInteger ==
  (ParseReturned /\ LastSlash(args.input) >= 0
   /\ ~IsPrefixLengthText(TextAfterSlash(args.input)))
    => ret.err

\* The IPv6 literals among the address parts offered, each with the 16 bytes
\* it denotes.
Literals ==
  {<<"2001:db8::1", <<32, 1, 13, 184, 0, 0, 0, 0, 0, 0, 0, 0, 0, 0, 0, 1>>>>,
   <<"2001:0db8:0000:0000:0000:0000:0000:0001",
     <<32, 1, 13, 184, 0, 0, 0, 0, 0, 0, 0, 0, 0, 0, 0, 1>>>>,
   <<"2001:db8::", <<32, 1, 13, 184, 0, 0, 0, 0, 0, 0, 0, 0, 0, 0, 0, 0>>>>,
   <<"::1", <<0, 0, 0, 0, 0, 0, 0, 0, 0, 0, 0, 0, 0, 0, 0, 1>>>>,
   <<"::", <<0, 0, 0, 0, 0, 0, 0, 0, 0, 0, 0, 0, 0, 0, 0, 0>>>>,
   <<"::ffff:192.168.1.1", <<0, 0, 0, 0, 0, 0, 0, 0, 0, 0, 255, 255, 192, 168, 1, 1>>>>,
   <<"FE80::A:0:0:1", <<254, 128, 0, 0, 0, 0, 0, 0, 0, 10, 0, 0, 0, 0, 0, 1>>>>}

\* t is an IPv6 literal; t denotes the bytes b.
IsLiteral(t) == \E l \in Literals : l[1] = t
Denotes(t, b) == <<t, b>> \in Literals

\* t holds a colon.
HasColon(t) == \E k \in 0..(Len(t) - 1) : Ch(t, k) = ":"

\* C12: parseIPv6WithOptionalPrefix fails on the empty input, on an address
\* part without a colon and on an address part that is not an IPv6 literal;
\* when it succeeds the address returned has exactly 16 bytes, those the
\* literal denotes, an embedded-IPv4 literal such as ::ffff:192.168.1.1
\* included.
C12_AddressPartMustBeIPv6 ==
  ParseReturned =>
    /\ args.input = "" => ret.err
    /\ ~HasColon(TextBeforeSlash(args.input)) => ret.err
    /\ ~IsLiteral(TextBeforeSlash(args.input)) => ret.err
    /\ ~ret.err => /\ Len(ret.val.ip) = 16
                   /\ Denotes(TextBeforeSlash(args.input), ret.val.ip)

\* The embedded-IPv4 literal is accepted and comes back as 16 bytes.
C12_Witness ==
  /\ ParseReturned
  /\ args.input = "::ffff:192.168.1.1"
  /\ ~ret.err
  /\ ret.val.ip = <<0, 0, 0, 0, 0, 0, 0, 0, 0, 0, 255, 255, 192, 168, 1, 1>>

\* C13: a successful parseIPv6WithOptionalPrefix returns the prefix length -1
\* exactly when the input holds no slash, and the integer n for an input that
\* ends in /n (0 for /0); every failure returns -1.
C13_PrefixLengthReturned ==
  ParseReturned =>
    /\ ret.err => ret.val.prefixLen = 0 - 1
    /\ ~ret.err =>
         /\ ret.val.prefixLen = 0 - 1 <=> LastSlash(args.input) < 0
         /\ LastSlash(args.input) >= 0 =>
              /\ ret.val.prefixLen \in 0..128
              /\ \A n \in 0..128 :
                   NamesInteger(TextAfterSlash(args.input), n) => ret.val.prefixLen = n

\* An explicit /0 is accepted and returned as 0.
C13_Witness ==
  /\ ParseReturned
  /\ args.input = "2001:db8::1/0"
  /\ ~ret.err
  /\ ret.val.prefixLen = 0

\* Bit k of the address, 1 the most significant of 128.
BitOf(ip, k) == (ip[(k - 1) \div 8 + 1] \div 2^(7 - ((k - 1) % 8))) % 2

\* The range base/bits holds the address.
InRange(ip, base, bits) == \A k \in 1..bits : BitOf(ip, k) = BitOf(base, k)

\* The ranges of the address types in the order they are tried; the last
\* holds every address.
TypeRanges ==
  <<[base |-> Zeros(16), bits |-> 128, label |-> "Unspecified (::)"],
    [base |-> Zeros(15) \o <<1>>, bits |-> 128, label |-> "Loopback (::1)"],
    [base |-> Zeros(10) \o <<255, 255>> \o Zeros(4), bits |-> 96,
     label |-> "IPv4-Mapped (::ffff:0:0/96)"],
    [base |-> <<0, 100, 255, 155>> \o Zeros(12), bits |-> 96,
     label |-> "NAT64 Well-Known Prefix (64:ff9b::/96)"],
    [base |-> <<0, 100, 255, 155, 0, 1>> \o Zeros(10), bits |-> 48,
     label |-> "NAT64 Network-Specific (64:ff9b:1::/48)"],
    [base |-> <<1>> \o Zeros(15), bits |-> 64, label |-> "Discard-Only (100::/64)"],
    [base |-> <<32, 1>> \o Zeros(14), bits |-> 32, label |-> "Teredo (2001:0000::/32)"],
    [base |-> <<32, 1, 13, 184>> \o Zeros(12), bits |-> 32,
     label |-> "Documentation (2001:db8::/32)"],
    [base |-> <<32, 2>> \o Zeros(14), bits |-> 16, label |-> "6to4 (2002::/16)"],
    [base |-> <<63, 255>> \o Zeros(14), bits |-> 20, label |-> "Documentation (3fff::/20)"],
    [base |-> <<252>> \o Zeros(15), bits |-> 7,
     label |-> "Unique Local Address (ULA, fc00::/7)"],
    [base |-> <<254, 128>> \o Zeros(14), bits |-> 10, label |-> "Link-Local (fe80::/10)"],
    [base |-> <<255>> \o Zeros(15), bits |-> 8, label |-> "Multicast (ff00::/8)"],
    [base |-> <<32>> \o Zeros(15), bits |-> 3, label |-> "Global Unicast (2000::/3)"],
    [base |-> Zeros(16), bits |-> 0, label |-> "Reserved / Unknown"]>>

\* The address lies in range r of TypeRanges.
InTypeRange(ip, r) == InRange(ip, TypeRanges[r].base, TypeRanges[r].bits)

\* The first range of TypeRanges that holds the address.
FirstTypeRange(ip) ==
  CHOOSE r \in 1..Len(TypeRanges) :
    InTypeRange(ip, r) /\ \A q \in 1..(r - 1) : ~InTypeRange(ip, q)

\* The label is that of range r; the multicast label goes on with the scope.
IsLabelOf(label, r) ==
  IF r = 13 THEN Take(label, Len(TypeRanges[r].label) + 9) = TypeRanges[r].label \o ", Scope: "
  ELSE label = TypeRanges[r].label

\* C14: for a 16-byte address classifyIPv6 returns the label of the first of
\* the ranges Unspecified, Loopback, ::ffff:0:0/96, 64:ff9b::/96,
\* 64:ff9b:1::/48, 100::/64, 2001:0000::/32, 2001:db8::/32, 2002::/16,
\* 3fff::/20, fc00::/7, fe80::/10, ff00::/8, 2000::/3, fallback that holds
\* it; no address of 2001:0000::/32, 2001:db8::/32, 2002::/16 or 3fff::/20
\* is labelled Global Unicast and every address of fc00::/7 is labelled ULA.
C14_FirstRangeLabels ==
  (Returned("classifyIPv6") /\ Len(args.ip) = 16) =>
    /\ IsLabelOf(ret.val, FirstTypeRange(args.ip))
    /\ (\E r \in 7..10 : InTypeRange(args.ip, r)) => ret.val # "Global Unicast (2000::/3)"
    /\ args.ip[1] \in {252, 253} => ret.val = "Unique Local Address (ULA, fc00::/7)"

\* An fd.. address is labelled ULA.
C14_Witness ==
  /\ Returned("classifyIPv6")
  /\ args.ip[1] = 253
  /\ ret.val = "Unique Local Address (ULA, fc00::/7)"

\* The scope names by the low nibble of byte 1.
ScopeLabels ==
  [n \in 0..15 |->
     CASE n = 1 -> "Interface-Local"
       [] n = 2 -> "Link-Local"
       [] n = 4 -> "Admin-Local"
       [] n = 5 -> "Site-Local"
       [] n = 8 -> "Organization-Local"
       [] n = 14 -> "Global"
       [] OTHER -> "Unknown (0x0" \o SubSeq("0123456789abcdef", n + 1, n + 1) \o ")"]

\* C15: for an address whose first byte is 0xff classifyIPv6 returns
\* "Multicast (ff00::/8), Scope: <s>" with <s> fixed by the low nibble of
\* byte 1 alone: the six named scopes for 1, 2, 4, 5, 8, 14 and an
\* "Unknown (0x..)" label for each of the other ten; the high nibble of
\* byte 1 and bytes 2..15 do not change it.
C15_ScopeFromLowNibble ==
  (Returned("classifyIPv6") /\ Len(args.ip) = 16 /\ args.ip[1] = 255) =>
    ret.val = "Multicast (ff00::/8), Scope: " \o ScopeLabels[args.ip[2] % 16]

\* A multicast address with flags set, a scope without a name and a tail
\* that is not zero.
C15_Witness ==
  /\ Returned("classifyIPv6")
  /\ args.ip[1] = 255 /\ args.ip[2] = 16 * 3 + 15 /\ args.ip[16] = 4
  /\ ret.val = "Multicast (ff00::/8), Scope: Unknown (0x0f)"

\* Group g (0 is the first of 8) of a 16-byte address, from its nibbles.
GroupOf(ip, g) ==
  4096 * NibbleOf(ip, 4 * g) + 256 * NibbleOf(ip, 4 * g + 1)
    + 16 * NibbleOf(ip, 4 * g + 2) + NibbleOf(ip, 4 * g + 3)

\* The nibbles n .. last of the address as lowercase hex digits.
RECURSIVE DigitsOf(_, _, _)
DigitsOf(ip, n, last) ==
  IF n > last THEN ""
  ELSE SubSeq("0123456789abcdef", NibbleOf(ip, n) + 1, NibbleOf(ip, n) + 1)
       \o DigitsOf(ip, n + 1, last)

\* The first digit of group g that is written when leading zeros are left out.
FirstDigitOf(ip, g) ==
  IF \A d \in 0..2 : NibbleOf(ip, 4 * g + d) = 0 THEN 3
  ELSE CHOOSE d \in 0..2 :
         NibbleOf(ip, 4 * g + d) # 0 /\ \A c \in 0..(d - 1) : NibbleOf(ip, 4 * g + c) = 0

\* Group g without leading zeros.
ShortGroup(ip, g) == DigitsOf(ip, 4 * g + FirstDigitOf(ip, g), 4 * g + 3)

\* The groups from .. to - 1 without leading zeros, with colons between them.
RECURSIVE ShortGroups(_, _, _)
ShortGroups(ip, from, to) ==
  IF from >= to THEN ""
  ELSE ShortGroup(ip, from) \o (IF from + 1 < to THEN ":" ELSE "")
       \o ShortGroups(ip, from + 1, to)

\* The text in which "::" stands for the groups s .. e - 1.
WindowText(ip, s, e) == ShortGroups(ip, 0, s) \o "::" \o ShortGroups(ip, e, 8)

\* The windows [s, e) of at least least groups, all of them zero.
ZeroWindows(ip, least) ==
  {w \in (0..8) \X (0..8) :
     w[2] - w[1] >= least /\ \A g \in w[1]..(w[2] - 1) : GroupOf(ip, g) = 0}

\* The maximal runs of zero groups.
MaximalZeroRuns(ip) ==
  {w \in ZeroWindows(ip, 1) :
     /\ w[1] = 0 \/ GroupOf(ip, w[1] - 1) # 0
     /\ w[2] = 8 \/ GroupOf(ip, w[2]) # 0}

\* The sum of L(L-1)/2 over the runs, L the length of a run.
RECURSIVE SumOverRuns(_)
SumOverRuns(runs) ==
  IF runs = {} THEN 0
  ELSE LET w == CHOOSE x \in runs : TRUE
       IN  ((w[2] - w[1]) * (w[2] - w[1] - 1)) \div 2 + SumOverRuns(runs \ {w})

\* The texts of a tuple, as a set.
TextsOf(q) == {q[k] : k \in 1..Len(q)}

\* C16: compressionPermutations returns one string per window [start, end)
\* of the 8 groups with end - start >= 2 and every group zero, and nothing
\* else; its length is the sum over the maximal zero runs of length L of
\* L(L-1)/2 (28 for the all-zero address, "::" among them), and it is empty
\* when no two adjacent groups are both zero.
C16_OneTextPerZeroWindow ==
  (Returned("compressionPermutations") /\ Len(args.ip) = 16) =>
    /\ TextsOf(ret.val) = {WindowText(args.ip, w[1], w[2]) : w \in ZeroWindows(args.ip, 2)}
    /\ Len(ret.val) = Cardinality(ZeroWindows(args.ip, 2))
    /\ Cardinality(TextsOf(ret.val)) = Len(ret.val)
    /\ Len(ret.val) = SumOverRuns(MaximalZeroRuns(args.ip))
    /\ (\A g \in 0..6 : GroupOf(args.ip, g) # 0 \/ GroupOf(args.ip, g + 1) # 0)
         => ret.val = <<>>

\* The all-zero address has 28 abbreviations, "::" among them.
C16_Witness ==
  /\ Returned("compressionPermutations")
  /\ args.ip = Zeros(16)
  /\ Len(ret.val) = 28
  /\ "::" \in TextsOf(ret.val)

\* C17: for a 16-byte address expandIPv6 returns 8 groups of exactly 4
\* lowercase hex digits separated by 7 colons: 39 characters, never "::",
\* group g being the zero-padded hex value of bytes 2g and 2g+1.
C17_ExpandedIsFixedWidth ==
  (Returned("expandIPv6") /\ Len(args.ip) = 16) =>
    /\ Len(ret.val) = 39
    /\ \A k \in 0..38 :
         SubSeq(ret.val, k + 1, k + 1) =
           IF k % 5 = 4 THEN ":"
           ELSE DigitsOf(args.ip, 4 * (k \div 5) + (k % 5), 4 * (k \div 5) + (k % 5))
    /\ \A k \in 1..38 : SubSeq(ret.val, k, k + 1) # "::"

\* ::1 is written with every zero.
C17_Witness ==
  /\ Returned("expandIPv6")
  /\ args.ip = Zeros(15) \o <<1>>
  /\ ret.val = "0000:0000:0000:0000:0000:0000:0000:0001"

\* The leftmost of the longest windows of two or more zero groups.
LeftmostLongest(ip) ==
  CHOOSE w \in ZeroWindows(ip, 2) :
    \A v \in ZeroWindows(ip, 2) :
      \/ v[2] - v[1] < w[2] - w[1]
      \/ v[2] - v[1] = w[2] - w[1] /\ v[1] >= w[1]

\* The RFC 5952 text of a 16-byte address in hex groups: lowercase, no leading
\* zeros, "::" for the leftmost longest run of two or more zero groups.
Canonical(ip) ==
  IF ZeroWindows(ip, 2) = {} THEN ShortGroups(ip, 0, 8)
  ELSE WindowText(ip, LeftmostLongest(ip)[1], LeftmostLongest(ip)[2])

\* The address lies in ::ffff:0:0/96.
InMappedRange(ip) == \A g \in 0..4 : GroupOf(ip, g) = 0 /\ GroupOf(ip, 5) = 65535

\* The RFC 5952 texts of the address: the hex groups, and for an address of
\* ::ffff:0:0/96 also the form that ends in a dotted quad.
CanonicalTexts(ip) ==
  {Canonical(ip)}
    \cup (IF InMappedRange(ip)
          THEN {"::ffff:" \o IntStr(ip[13]) \o "." \o IntStr(ip[14]) \o "."
                  \o IntStr(ip[15]) \o "." \o IntStr(ip[16])}
          ELSE {})

\* The text with each of a .. f in upper case.
RECURSIVE UpperCased(_)
UpperCased(t) ==
  IF t = "" THEN ""
  ELSE (CASE SubSeq(t, 1, 1) = "a" -> "A" [] SubSeq(t, 1, 1) = "b" -> "B"
          [] SubSeq(t, 1, 1) = "c" -> "C" [] SubSeq(t, 1, 1) = "d" -> "D"
          [] SubSeq(t, 1, 1) = "e" -> "E" [] SubSeq(t, 1, 1) = "f" -> "F"
          [] OTHER -> SubSeq(t, 1, 1))
       \o UpperCased(SubSeq(t, 2, Len(t)))

\* C18: for every 16-byte address, those of ::ffff:0:0/96 included,
\* compressIPv6 returns the RFC 5952 IPv6 text (lowercase hex groups without
\* leading zeros, "::" for the leftmost longest run of two or more zero
\* groups), uppercaseIPv6 that text in upper case and urlIPv6 that text
\* between "[" and "]".
C18_CompressedIsCanonical ==
  /\ (Returned("compressIPv6") /\ Len(args.ip) = 16) => ret.val \in CanonicalTexts(args.ip)
  /\ (Returned("uppercaseIPv6") /\ Len(args.ip) = 16)
       => ret.val \in {UpperCased(t) : t \in CanonicalTexts(args.ip)}
  /\ (Returned("urlIPv6") /\ Len(args.ip) = 16)
       => ret.val \in {"[" \o t \o "]" : t \in CanonicalTexts(args.ip)}

\* The bits from .. to of the address as binary digits.
RECURSIVE BitsText(_, _, _)
BitsText(ip, from, to) ==
  IF from > to THEN ""
  ELSE SubSeq("01", BitOf(ip, from) + 1, BitOf(ip, from) + 1) \o BitsText(ip, from + 1, to)

\* C19: for a 16-byte address dottedIPv6 is the 32 nibbles, most significant
\* first, each as one lowercase hex digit, joined by "." (63 characters), and
\* binaryIPv6 is the 8 groups of 16 bits, most significant first, each as
\* exactly 16 binary digits, joined by ":".
C19_FixedWidthRenderings ==
  /\ (Returned("dottedIPv6") /\ Len(args.ip) = 16) =>
       /\ Len(ret.val) = 63
       /\ \A k \in 0..62 :
            SubSeq(ret.val, k + 1, k + 1) =
              IF k % 2 = 1 THEN "." ELSE DigitsOf(args.ip, k \div 2, k \div 2)
  /\ (Returned("binaryIPv6") /\ Len(args.ip) = 16) =>
       /\ Len(ret.val) = 8 * 16 + 7
       /\ \A g \in 0..7 :
            SubSeq(ret.val, 17 * g + 1, 17 * g + 16) = BitsText(args.ip, 16 * g + 1, 16 * g + 16)
       /\ \A g \in 1..7 : SubSeq(ret.val, 17 * g, 17 * g) = ":"

\* 2001:db8::1 in binary: groups with leading zeros.
C19_Witness ==
  /\ Returned("binaryIPv6")
  /\ args.ip = <<32, 1, 13, 184, 0, 0, 0, 0, 0, 0, 0, 0, 0, 0, 0, 1>>
  /\ SubSeq(ret.val, 1, 33) = "0010000000000001:0000110110111000"
  /\ SubSeq(ret.val, 120, 135) = "0000000000000001"

\* The text is an address whose 16-byte value begins with fe80.
ValueBeginsFe80(t) ==
  /\ ParseIP(t).ok
  /\ Len(ParseIP(t).ip) = 16
  /\ ParseIP(t).ip[1] = 254 /\ ParseIP(t).ip[2] = 128

\* The interface identifier of the address carries the FF FE marker.
CarriesMarker(t) == ParseIP(t).ip[12] = 255 /\ ParseIP(t).ip[13] = 254

\* C20: the prefix requirement of linkLocalToMAC is on the value of the
\* address: with the FF FE marker in the interface identifier it succeeds for
\* every spelling of an address whose 16-byte value begins with fe80 (upper
\* case FE80::... included), and it fails for every address whose value does
\* not begin with fe80.
C20_PrefixRequirementOnValue ==
  Returned("linkLocalToMAC") =>
    /\ (ValueBeginsFe80(args.ipv6) /\ CarriesMarker(args.ipv6)) => ~ret.err
    /\ ~ValueBeginsFe80(args.ipv6) => ret.err

\* A byte as two lowercase hex digits.
ByteHex(b) ==
  SubSeq("0123456789abcdef", (b \div 16) + 1, (b \div 16) + 1)
    \o SubSeq("0123456789abcdef", (b % 16) + 1, (b % 16) + 1)

\* The byte with bit 0x02 flipped.
FlipBit2(b) == IF (b \div 2) % 2 = 1 THEN b - 2 ELSE b + 2

\* The MAC of a 16-byte address: bytes 8 (bit 0x02 flipped), 9, 10, 13, 14,
\* 15, counted from 0, as six octets joined by colons.
MacOfAddress(ip) ==
  ByteHex(FlipBit2(ip[9])) \o ":" \o ByteHex(ip[10]) \o ":" \o ByteHex(ip[11]) \o ":"
    \o ByteHex(ip[14]) \o ":" \o ByteHex(ip[15]) \o ":" \o ByteHex(ip[16])

\* C21: decodeMACFromSLAAC and linkLocalToMAC make the same EUI-64 check and
\* reconstruction: each fails when bytes 11 and 12 of the address are not
\* 0xFF, 0xFE, and a MAC returned is [byte8 XOR 0x02, byte9, byte10, byte13,
\* byte14, byte15] as six lowercase two-digit hex octets joined by ":"; on
\* every address linkLocalToMAC accepts both return the same MAC, and
\* decodeMACFromSLAAC returns it under any prefix.
C21_SameCheckAndReconstruction ==
  /\ Returned("decodeMACFromSLAAC") =>
       IF ~ParseIP(args.ipv6).ok THEN ret.err
       ELSE IF ~CarriesMarker(args.ipv6) THEN ret.err
       ELSE ~ret.err /\ ret.val = MacOfAddress(ParseIP(args.ipv6).ip)
  /\ Returned("linkLocalToMAC") =>
       /\ (ParseIP(args.ipv6).ok /\ ~CarriesMarker(args.ipv6)) => ret.err
       /\ ~ret.err => /\ ret.val = MacOfAddress(ParseIP(args.ipv6).ip)
                      /\ decodeMACFromSLAAC(args.ipv6) = ret

\* An EUI-64 address under a global prefix is decoded.
C21_Witness ==
  /\ Returned("decodeMACFromSLAAC")
  /\ args.ipv6 = "2001:db8:1:2:a8bb:ccff:fedd:eeff"
  /\ ~ret.err
  /\ ret.val = "aa:bb:cc:dd:ee:ff"

\* C22: macToLinkLocal succeeds only for a text of exactly six
\* colon-separated hex octets: it returns an error for fewer or more than six
\* parts and whenever a part is not entirely a hex octet (an empty part,
\* characters that are not hex digits after a hex digit as in 1g or 0x11, a
\* value above 0xff).
C22_OnlySixHexOctets ==
  (Returned("macToLinkLocal") /\ ~IsMacText(args.mac)) => ret.err

\* The value of a text of one or two hex digits.
HexDigitValue(c) ==
  CHOOSE v \in 0..15 :
    c \in {SubSeq("0123456789abcdef", v + 1, v + 1), SubSeq("0123456789ABCDEF", v + 1, v + 1)}
OctetValue(t) ==
  IF Len(t) = 1 THEN HexDigitValue(t)
  ELSE 16 * HexDigitValue(SubSeq(t, 1, 1)) + HexDigitValue(SubSeq(t, 2, 2))

\* The link-local address of the MAC with the octet texts parts: fe80::/64
\* and the interface identifier [o0 XOR 0x02, o1, o2, FF, FE, o3, o4, o5].
LinkLocalOfOctets(parts) ==
  <<254, 128, 0, 0, 0, 0, 0, 0,
    FlipBit2(OctetValue(parts[1])), OctetValue(parts[2]), OctetValue(parts[3]), 255, 254,
    OctetValue(parts[4]), OctetValue(parts[5]), OctetValue(parts[6])>>

\* C23: for a valid MAC with the octets o0..o5 macToLinkLocal returns a text
\* that parses to the 16 bytes fe80:0000:0000:0000 followed by
\* [o0 XOR 0x02, o1, o2, 0xFF, 0xFE, o3, o4, o5]: bit 0x02 of octet 0 is
\* flipped and every other bit of the MAC is copied.
C23_LinkLocalOfMac ==
  (Returned("macToLinkLocal") /\ IsMacText(args.mac)) =>
    /\ ~ret.err
    /\ ParseIP(ret.val).ok
    /\ ParseIP(ret.val).ip = LinkLocalOfOctets(Split(args.mac, ":"))

\* A MAC in mixed case with a one-digit octet.
C23_Witness ==
  /\ Returned("macToLinkLocal")
  /\ args.mac = "3c:22:fB:0d:9:10"
  /\ ret.val = "fe80::3e22:fbff:fe0d:0910"

C25_CoreWritesNoOutput ==
  op \in {"generateSubnets", "countSubnets", "ipv6ToArpa", "macToLinkLocal", "linkLocalToMAC",
          "decodeMACFromSLAAC", "ipv4ToSynthesized", "synthesizedToIPv4"}
    => stdout = <<>>

\* The number of places at which "::" occurs in the text.
DoubleColons(t) == Cardinality({k \in 1..(Len(t) - 1) : SubSeq(t, k, k + 1) = "::"})

\* C26: every string compressionPermutations(ip) returns is a valid IPv6
\* literal with exactly one "::" and parses back to the same 16 bytes ip, for
\* every window, those that touch the first or the last group included.
C26_PermutationsParseBack ==
  (Returned("compressionPermutations") /\ Len(args.ip) = 16) =>
    \A k \in 1..Len(ret.val) :
      /\ DoubleColons(ret.val[k]) = 1
      /\ ParseIP(ret.val[k]).ok
      /\ ParseIP(ret.val[k]).ip = args.ip

\* An address with runs of zero groups at both ends and in the middle has
\* its abbreviations returned, "::" at the start and at the end among them.
C26_Witness ==
  /\ Returned("compressionPermutations")
  /\ args.ip = <<0, 0, 0, 0, 0, 0, 0, 1, 0, 0, 0, 0, 0, 0, 0, 0>>
  /\ "::1:0:0:0:0" \in TextsOf(ret.val)
  /\ "0:0:0:1::" \in TextsOf(ret.val)
  /\ "0:0:0:1:0::0" \in TextsOf(ret.val)

\* C27: generateSubnets ends with an error, and with no subnet, for every
\* target prefix length above 128, and countSubnets likewise: no subnet text
\* carries a prefix length outside 0..128 and the step 2^(128 - target) is
\* never computed with a negative exponent.
C27_TargetAbove128IsRefused ==
  /\ (Returned("countSubnets") /\ args.new > 128) => ret.err
  /\ (op = "generateSubnets" /\ args.new > 128) => (pc = "done" /\ ret.err /\ ret.val = <<>>)
  /\ (op = "generateSubnets" /\ subnets # <<>>) => args.new \in 0..128

\* The address lies in the base block of the call a, on the boundary of the
\* target: 16 bytes that agree with the base on the first a.cur bits and are
\* zero below bit a.new.
OnTargetBoundaryInBase(x, a) ==
  /\ Len(x) = 16
  /\ InRange(x, ParseIP(a.addr).ip, a.cur)
  /\ \A k \in (a.new + 1)..128 : BitOf(x, k) = 0

\* C28: at every iteration of the loop of generateSubnets each address
\* appended so far agrees with the masked base on its first current bits and
\* is zero below the target boundary: every subnet returned lies inside the
\* base block, the subnets returned are pairwise disjoint, and an address that
\* is appended never exceeds 128 bits.
C28_LoopInvariant ==
  (op = "generateSubnets" /\ pc \in {"loop", "sort", "done"}) =>
    /\ \A k \in 1..Len(subnets) : OnTargetBoundaryInBase(EntryIP(subnets[k]), args)
    /\ \A j \in 1..Len(subnets) : \A k \in (j + 1)..Len(subnets) :
         ~InRange(EntryIP(subnets[j]), EntryIP(subnets[k]), args.new)
    /\ (pc = "loop" /\ IntLess(i, subnetCount)) => OnTargetBoundaryInBase(prefixIP, args)
    /\ (pc = "done" /\ ~ret.err) => ret.val = subnets

\* The whole of the last /126 of the address space has been enumerated as
\* /128s: the running address has gone past 128 bits after the last append.
C28_Witness ==
  /\ Returned("generateSubnets") /\ ~ret.err
  /\ args.addr = "ffff:ffff:ffff:ffff:ffff:ffff:ffff:ffff" /\ args.cur = 126 /\ args.new = 128
  /\ Len(subnets) = 4
  /\ Len(prefixIP) = 17

====
